---- MODULE Spec2Model ----
(***************************************************************************)
(* Model of the IB Physics question generator (streamlit_app.py).          *)
(*                                                                         *)
(* Text is modelled at character level: a Python str is a sequence of      *)
(* one-character strings, so that strip, split, find, the regular          *)
(* expressions and the JSON encoding are computed, not assumed.  A few     *)
(* multi-letter atoms ("question", "options", ...) stand for words whose   *)
(* spelling plays no role; each behaves as one character of the text.      *)
(***************************************************************************)
EXTENDS Integers, Sequences, FiniteSets, TLC

(***************************************************************************)
(* Python values                                                           *)
(***************************************************************************)
\* Optional[...]: None is the empty tuple, a value x is the 1-tuple <<x>>.
None == << >>

Some(x) == <<x>>

IsNone(o) == o = << >>

\* A JSON / Python value the model distinguishes: a str, a list of scalars,
\* or a number.  t is the type, s the characters of a str or the digits of a
\* number, l the elements of a list (scalars: records [t, s]).
StrV(s) == [t |-> "str", s |-> s, l |-> << >>]

NumV(s) == [t |-> "num", s |-> s, l |-> << >>]

ListV(l) == [t |-> "list", s |-> << >>, l |-> l]

StrE(s) == [t |-> "str", s |-> s]

NumE(s) == [t |-> "num", s |-> s]

(***************************************************************************)
(* Python str methods                                                      *)
(***************************************************************************)
NL == "\n"

\* The whitespace characters of the alphabets used here.
Whitespace == {" ", NL}

Lowercase == <<"a", "b", "c", "d", "e", "f", "g", "h", "i", "j", "k", "l", "m",
               "n", "o", "p", "q", "r", "s", "t", "u", "v", "w", "x", "y", "z">>

Uppercase == <<"A", "B", "C", "D", "E", "F", "G", "H", "I", "J", "K", "L", "M",
               "N", "O", "P", "Q", "R", "S", "T", "U", "V", "W", "X", "Y", "Z">>

upper_char(c) ==
    IF \E i \in 1..Len(Lowercase) : Lowercase[i] = c
    THEN Uppercase[CHOOSE i \in 1..Len(Lowercase) : Lowercase[i] = c]
    ELSE c

\* str.upper()
upper(s) == [i \in 1..Len(s) |-> upper_char(s[i])]

RECURSIVE lstrip(_)
lstrip(s) ==
    IF s = << >> THEN s
    ELSE IF Head(s) \in Whitespace THEN lstrip(Tail(s)) ELSE s

RECURSIVE rstrip(_)
rstrip(s) ==
    IF s = << >> THEN s
    ELSE IF s[Len(s)] \in Whitespace THEN rstrip(SubSeq(s, 1, Len(s) - 1)) ELSE s

\* str.strip()
strip(s) == rstrip(lstrip(s))

\* str.startswith(p)
startswith(s, p) == Len(s) >= Len(p) /\ SubSeq(s, 1, Len(p)) = p

\* The indices where a piece of s begins: the first, and each one after a
\* separator.
piece_starts(s, sep) == {i \in 1..(Len(s) + 1) : i = 1 \/ s[i - 1] = sep}

\* The piece that begins at index i runs up to the next separator.
piece_at(s, sep, i) ==
    SubSeq(s, i, (CHOOSE j \in i..(Len(s) + 1) :
                     /\ j = Len(s) + 1 \/ s[j] = sep
                     /\ \A k \in i..(j - 1) : s[k] # sep) - 1)

\* The pieces in the order of their starts.
pieces(s, sep, starts) ==
    [n \in 1..Cardinality(starts) |->
        piece_at(s, sep, CHOOSE i \in starts : Cardinality({j \in starts : j < i}) = n - 1)]

\* str.split(sep) for a one-character separator: always at least one piece.
split(s, sep) == pieces(s, sep, piece_starts(s, sep))

\* str.find(c): the first index (1-based) of character c, 0 when absent
\* (Python: 0-based, -1 when absent).
find(s, c) ==
    IF \E i \in 1..Len(s) : s[i] = c
    THEN CHOOSE i \in 1..Len(s) : s[i] = c /\ \A j \in 1..(i - 1) : s[j] # c
    ELSE 0

\* str.rfind(c): the last index (1-based) of character c, 0 when absent.
rfind(s, c) ==
    IF \E i \in 1..Len(s) : s[i] = c
    THEN CHOOSE i \in 1..Len(s) : s[i] = c /\ \A j \in (i + 1)..Len(s) : s[j] # c
    ELSE 0

\* The first index whose character is in set cs, 0 when there is none
\* (re.search of a character class).
search_class(s, cs) ==
    IF \E i \in 1..Len(s) : s[i] \in cs
    THEN CHOOSE i \in 1..Len(s) : s[i] \in cs /\ \A j \in 1..(i - 1) : s[j] \notin cs
    ELSE 0

RECURSIVE join(_, _)
join(parts, sep) ==
    IF parts = << >> THEN << >>
    ELSE IF Len(parts) = 1 THEN parts[1]
    ELSE parts[1] \o sep \o join(Tail(parts), sep)

(***************************************************************************)
(* parse_llama_response: stage-1 text -> candidate or None                 *)
(***************************************************************************)
ABCD == {"A", "B", "C", "D"}

AnswerLetters == {<<"A">>, <<"B">>, <<"C">>, <<"D">>}

ANSWER_PREFIX == <<"A", "N", "S", "W", "E", "R", ":">>

CORRECT_PREFIX == <<"C", "O", "R", "R", "E", "C", "T", ":">>

K_question == <<"question">>

K_options == <<"options">>

K_correct_answer == <<"correct_answer">>

K_explanation == <<"explanation">>

K_confidence == <<"confidence">>

\* re.match(r'^[ABCD]\)', line)
is_option_line(line) == Len(line) >= 2 /\ line[1] \in ABCD /\ line[2] = ")"

\* line.upper().startswith('ANSWER:') or line.upper().startswith('CORRECT:')
is_answer_line(line) ==
    startswith(upper(line), ANSWER_PREFIX) \/ startswith(upper(line), CORRECT_PREFIX)

\* re.search(r'[ABCD]', u) for the upper-cased line u: the first of A-D
\* anywhere in it, the prefix included (None: no match).
first_letter(u, i) == IF i = 0 THEN None ELSE Some(<<u[i]>>)

answer_search(u) == first_letter(u, search_class(u, ABCD))

answer_match(line) == answer_search(upper(line))

\* opt.split(')', 1)[1].strip(): the text after the first ')'.
strip_option_label(opt) == strip(SubSeq(opt, find(opt, ")") + 1, Len(opt)))

llama_scan_init ==
    [question_text |-> << >>, options |-> << >>, answer |-> << >>,
     current_section |-> "question"]

\* if answer_match: answer = answer_match.group(0)
set_answer(st, m) == IF IsNone(m) THEN st ELSE [st EXCEPT !.answer = m[1]]

\* A variant of the loop body that does not look at the section.
llama_scan_stripped_any_section(st, line) ==
    IF line = << >> THEN st
    ELSE IF is_option_line(line)
    THEN [st EXCEPT !.current_section = "options", !.options = Append(@, line)]
    ELSE IF is_answer_line(line) THEN set_answer(st, answer_match(line))
    ELSE [st EXCEPT !.question_text = @ \o <<" ">> \o line]

\* The loop body for a stripped line.
llama_scan_stripped(st, line) ==
    IF line = << >> THEN st
    ELSE IF is_option_line(line)
    THEN [st EXCEPT !.current_section = "options", !.options = Append(@, line)]
    ELSE IF is_answer_line(line) THEN set_answer(st, answer_match(line))
    ELSE IF st.current_section = "question"
    THEN [st EXCEPT !.question_text = @ \o <<" ">> \o line]
    ELSE st

\* One iteration of the loop over the lines.
llama_scan_line(st, raw_line) == llama_scan_stripped(st, strip(raw_line))

RECURSIVE llama_scan(_, _)
llama_scan(lines, st) ==
    IF lines = << >> THEN st
    ELSE llama_scan(Tail(lines), llama_scan_line(st, Head(lines)))

\* question_text = question_text.strip()
strip_question(st) == [st EXCEPT !.question_text = strip(@)]

\* The state of the scan at the end of the loop, question text stripped.
llama_scan_text(response_text) ==
    strip_question(llama_scan(split(strip(response_text), NL), llama_scan_init))

\* A variant of the final test that does not count the options.
llama_valid_any_count(st) ==
    /\ st.question_text # << >>
    /\ st.answer \in AnswerLetters

\* A variant of the final test that accepts more than four options.
llama_valid_at_least_four(st) ==
    /\ st.question_text # << >>
    /\ Len(st.options) >= 4
    /\ st.answer \in AnswerLetters

\* The final test: all components present.
llama_valid(st) ==
    /\ st.question_text # << >>
    /\ Len(st.options) = 4
    /\ st.answer \in AnswerLetters

llama_candidate(st) ==
    (K_question :> StrV(st.question_text))
    @@ (K_options :> ListV([i \in 1..Len(st.options) |->
                              StrE(strip_option_label(st.options[i]))]))
    @@ (K_correct_answer :> StrV(st.answer))
    @@ (K_confidence :> NumV(<<"0", ".", "8">>))

llama_result(st) == IF llama_valid(st) THEN Some(llama_candidate(st)) ELSE None

parse_llama_response(response_text) == llama_result(llama_scan_text(response_text))

(***************************************************************************)
(* json.dumps / json.loads on the modelled values                          *)
(***************************************************************************)
QUOTE == "\""

BACKSLASH == "\\"

Digits == {"0", "1", "2", "3", "4", "5", "6", "7", "8", "9"}

\* One atom standing for a run of '[' nested deeper than the interpreter's
\* recursion limit (json.loads raises RecursionError on it, which is not a
\* JSONDecodeError).
DEEP_NESTING == "[[[[...]]]]"

\* json.dumps of the characters of a str.
RECURSIVE json_escape(_)
json_escape(s) ==
    IF s = << >> THEN << >>
    ELSE (IF Head(s) = QUOTE THEN <<BACKSLASH, QUOTE>>
          ELSE IF Head(s) = BACKSLASH THEN <<BACKSLASH, BACKSLASH>>
          ELSE IF Head(s) = NL THEN <<BACKSLASH, "n">>
          ELSE <<Head(s)>>) \o json_escape(Tail(s))

dumps_str(s) == <<QUOTE>> \o json_escape(s) \o <<QUOTE>>

dumps_scalar(e) == IF e.t = "str" THEN dumps_str(e.s) ELSE e.s

dumps_value(v) ==
    IF v.t = "str" THEN dumps_str(v.s)
    ELSE IF v.t = "num" THEN v.s
    ELSE <<"[">> \o join([i \in 1..Len(v.l) |-> dumps_scalar(v.l[i])], <<",", " ">>)
         \o <<"]">>

\* json.dumps of a dict given as its items (key, value) in insertion order.
json_dumps(items) ==
    <<"{">>
    \o join([i \in 1..Len(items) |->
               dumps_str(items[i][1]) \o <<":", " ">> \o dumps_value(items[i][2])],
            <<",", " ">>)
    \o <<"}">>

\* The dict with the given items (a later item replaces an earlier one with
\* the same key, as in Python).
RECURSIVE dict_of(_)
dict_of(items) ==
    IF items = << >> THEN << >>
    ELSE LET last == items[Len(items)]
         IN  (last[1] :> last[2]) @@ dict_of(SubSeq(items, 1, Len(items) - 1))

RECURSIVE skip_ws(_, _)
skip_ws(s, i) ==
    IF i <= Len(s) /\ s[i] \in Whitespace THEN skip_ws(s, i + 1) ELSE i

\* The characters of a string literal from position i (just after the opening
\* quote) to its closing quote.  Escapes: \" \\ \n (the alphabets used here
\* hold no other escape); a raw newline inside a literal is an error.
RECURSIVE scan_chars(_, _, _)
scan_chars(s, i, acc) ==
    IF i > Len(s) THEN [ok |-> FALSE, s |-> << >>, pos |-> i]
    ELSE IF s[i] = QUOTE THEN [ok |-> TRUE, s |-> acc, pos |-> i + 1]
    ELSE IF s[i] = BACKSLASH
    THEN IF i + 1 <= Len(s) /\ s[i + 1] \in {QUOTE, BACKSLASH, "n"}
         THEN scan_chars(s, i + 2,
                         Append(acc, IF s[i + 1] = "n" THEN NL ELSE s[i + 1]))
         ELSE [ok |-> FALSE, s |-> << >>, pos |-> i]
    ELSE IF s[i] = NL THEN [ok |-> FALSE, s |-> << >>, pos |-> i]
    ELSE scan_chars(s, i + 1, Append(acc, s[i]))

RECURSIVE scan_digits(_, _)
scan_digits(s, i) ==
    IF i <= Len(s) /\ s[i] \in Digits THEN scan_digits(s, i + 1) ELSE i

\* Results of the decoder's steps: exc is "" or the exception raised, pos the
\* position after what was read.
scalar_error(exc, i) == [exc |-> exc, e |-> StrE(<< >>), pos |-> i]

string_result(r) ==
    [exc |-> IF r.ok THEN "" ELSE "JSONDecodeError", e |-> StrE(r.s), pos |-> r.pos]

number_result(s, i, j) == [exc |-> "", e |-> NumE(SubSeq(s, i, j - 1)), pos |-> j]

\* An integer has no leading zero.
number_end(s, i) == IF s[i] = "0" THEN i + 1 ELSE scan_digits(s, i)

\* A scalar at position i: a string literal or an integer.
parse_scalar(s, i) ==
    IF i > Len(s) THEN scalar_error("JSONDecodeError", i)
    ELSE IF s[i] = QUOTE THEN string_result(scan_chars(s, i + 1, << >>))
    ELSE IF s[i] \in Digits THEN number_result(s, i, number_end(s, i))
    ELSE IF s[i] = DEEP_NESTING THEN scalar_error("RecursionError", i)
    ELSE scalar_error("JSONDecodeError", i)

list_error(exc, i) == [exc |-> exc, l |-> << >>, pos |-> i]

\* The elements of a list from position i (after '[' and whitespace, an
\* element expected) to its ']'.
RECURSIVE parse_elements(_, _, _)
elements_after(s, acc, r, j) ==
    IF r.exc # "" THEN list_error(r.exc, r.pos)
    ELSE IF j <= Len(s) /\ s[j] = "]"
    THEN [exc |-> "", l |-> Append(acc, r.e), pos |-> j + 1]
    ELSE IF j <= Len(s) /\ s[j] = ","
    THEN parse_elements(s, skip_ws(s, j + 1), Append(acc, r.e))
    ELSE list_error("JSONDecodeError", j)

elements_scalar(s, acc, r) == elements_after(s, acc, r, skip_ws(s, r.pos))

parse_elements(s, i, acc) == elements_scalar(s, acc, parse_scalar(s, i))

list_result(r) == [exc |-> r.exc, v |-> ListV(r.l), pos |-> r.pos]

scalar_value(r) ==
    [exc |-> r.exc, v |-> IF r.e.t = "str" THEN StrV(r.e.s) ELSE NumV(r.e.s),
     pos |-> r.pos]

\* A list whose '[' has been read, j the position after the whitespace.
parse_list(s, j) ==
    IF j <= Len(s) /\ s[j] = "]"
    THEN [exc |-> "", v |-> ListV(<< >>), pos |-> j + 1]
    ELSE list_result(parse_elements(s, j, << >>))

\* A value at position i: a str, a number or a list of scalars (the texts
\* used here nest no object and no list inside a value).
parse_value(s, i) ==
    IF i <= Len(s) /\ s[i] = "[" THEN parse_list(s, skip_ws(s, i + 1))
    ELSE scalar_value(parse_scalar(s, i))

pairs_error(exc, i) == [exc |-> exc, d |-> << >>, pos |-> i]

\* The pairs of an object from position i (a key expected) to its '}'; a
\* repeated key keeps its last value.
RECURSIVE parse_pairs(_, _, _)
pair_end(s, d, j) ==
    IF j <= Len(s) /\ s[j] = "}" THEN [exc |-> "", d |-> d, pos |-> j + 1]
    ELSE IF j <= Len(s) /\ s[j] = "," THEN parse_pairs(s, skip_ws(s, j + 1), d)
    ELSE pairs_error("JSONDecodeError", j)

pair_value(s, acc, key, r) ==
    IF r.exc # "" THEN pairs_error(r.exc, r.pos)
    ELSE pair_end(s, (key :> r.v) @@ acc, skip_ws(s, r.pos))

pair_colon(s, acc, k, c) ==
    IF ~k.ok \/ ~(c <= Len(s) /\ s[c] = ":") THEN pairs_error("JSONDecodeError", c)
    ELSE pair_value(s, acc, k.s, parse_value(s, skip_ws(s, c + 1)))

pair_key(s, acc, k) == pair_colon(s, acc, k, skip_ws(s, k.pos))

parse_pairs(s, i, acc) ==
    IF ~(i <= Len(s) /\ s[i] = QUOTE) THEN pairs_error("JSONDecodeError", i)
    ELSE pair_key(s, acc, scan_chars(s, i + 1, << >>))

\* An object whose '{' has been read, j the position after the whitespace.
object_body(s, j) ==
    IF j <= Len(s) /\ s[j] = "}" THEN [exc |-> "", d |-> << >>, pos |-> j + 1]
    ELSE parse_pairs(s, j, << >>)

\* An object at position i (s[i] is '{').
parse_object(s, i) == object_body(s, skip_ws(s, i + 1))

\* json.loads(s): kind is "dict" (d holds it) or "value" (v holds it); exc is
\* "" or the exception raised.  Text after the value is "Extra data".
loads_error(exc) == [exc |-> exc, kind |-> "value", d |-> << >>, v |-> StrV(<< >>)]

loads_dict(s, r) ==
    IF r.exc # "" THEN loads_error(r.exc)
    ELSE IF skip_ws(s, r.pos) <= Len(s) THEN loads_error("JSONDecodeError")
    ELSE [exc |-> "", kind |-> "dict", d |-> r.d, v |-> StrV(<< >>)]

loads_value(s, r) ==
    IF r.exc # "" THEN loads_error(r.exc)
    ELSE IF skip_ws(s, r.pos) <= Len(s) THEN loads_error("JSONDecodeError")
    ELSE [exc |-> "", kind |-> "value", d |-> << >>, v |-> r.v]

loads_at(s, i) ==
    IF i <= Len(s) /\ s[i] = "{" THEN loads_dict(s, parse_object(s, i))
    ELSE loads_value(s, parse_value(s, i))

json_loads(s) == loads_at(s, skip_ws(s, 1))

(***************************************************************************)
(* parse_question_response: stage-2 reply text -> candidate or None        *)
(***************************************************************************)
required_fields == {K_question, K_options, K_correct_answer}

\* all(field in data for field in required_fields)
has_required_fields(data) == required_fields \subseteq DOMAIN data

\* A variant of the options check without the length test.
options_any_list(data) == data[K_options].t = "list"

\* isinstance(data['options'], list) and len(data['options']) == 4
options_ok(data) == data[K_options].t = "list" /\ Len(data[K_options].l) = 4

\* data['correct_answer'] in ['A', 'B', 'C', 'D']
correct_answer_ok(data) ==
    data[K_correct_answer].t = "str" /\ data[K_correct_answer].s \in AnswerLetters

\* The three checks on the decoded dict, in the code's order.
question_data_valid(data) ==
    has_required_fields(data) /\ options_ok(data) /\ correct_answer_ok(data)

\* The exception types the function catches.
caught_by_parser == {"JSONDecodeError", "ValueError", "KeyError"}

\* A variant that decodes from the beginning of the text.
start_idx_at_beginning(response_text) == IF response_text = << >> THEN 0 ELSE 1

\* response_text.find('{') and response_text.rfind('}') (1-based, 0: absent).
start_idx(response_text) == find(response_text, "{")

\* A variant that takes the first closing brace.
end_idx_first(response_text) == find(response_text, "}")

end_idx(response_text) == rfind(response_text, "}")

\* The outcome of the call: exc is "" when it returns (ret is None or the
\* decoded dict) and the exception's type when one escapes.
returns(r) == [exc |-> "", ret |-> r]

raises(exc) == [exc |-> exc, ret |-> None]

\* From json.loads to the return, data being what json.loads gave.
check_question_data(data) ==
    IF data.exc \in caught_by_parser THEN returns(None)
    ELSE IF data.exc # "" THEN raises(data.exc)
    ELSE IF question_data_valid(data.d) THEN returns(Some(data.d))
    ELSE returns(None)

\* if start_idx != -1 and end_idx > start_idx (end_idx there is one past the
\* last brace).
parse_question_span(response_text, a, b) ==
    IF a # 0 /\ b >= a THEN check_question_data(json_loads(SubSeq(response_text, a, b)))
    ELSE returns(None)

parse_question_response(response_text) ==
    parse_question_span(response_text, start_idx(response_text), end_idx(response_text))

(***************************************************************************)
(* call_lit_api: the stage-1 client                                        *)
(***************************************************************************)
K_response == <<"response">>

K_generated_text == <<"generated_text">>

K_output == <<"output">>

\* What requests.post gives: an exception (connection error, timeout) or a
\* response with a status (ok: below 400) and a body.
HttpException == [kind |-> "exception", ok |-> FALSE, text |-> << >>]

HttpResponse(ok, text) == [kind |-> "response", ok |-> ok, text |-> text]

\* re.search(r'}\s+(.+)', resp_str, re.DOTALL): the leftmost '}' followed by
\* whitespace and at least one more character; 0 when there is none.
trailing_match(s) ==
    LET hit(i) == s[i] = "}" /\ i + 2 <= Len(s) /\ s[i + 1] \in Whitespace
    IN  IF \E i \in 1..Len(s) : hit(i)
        THEN CHOOSE i \in 1..Len(s) : hit(i) /\ \A j \in 1..(i - 1) : ~hit(j)
        ELSE 0

\* json_match.group(1).strip(), j being the first position after the run of
\* whitespace: \s+ takes the whole run unless the run reaches the end of the
\* text, where it leaves the last character to the group.
trailing_group(s, j) ==
    strip(IF j <= Len(s) THEN SubSeq(s, j, Len(s)) ELSE <<s[Len(s)]>>)

trailing_text(s) == trailing_group(s, skip_ws(s, trailing_match(s) + 1))

\* The else branch under 'response': json.loads(resp_str), then
\* inner.get('output', resp_str); the bare except returns resp_str.
inner_get(resp_str, inner) ==
    IF inner.exc = "" /\ inner.kind = "dict" /\ K_output \in DOMAIN inner.d
    THEN inner.d[K_output]
    ELSE StrV(resp_str)

inner_output(resp_str) == inner_get(resp_str, json_loads(resp_str))

says(v) == [ret |-> Some(v), notice |-> ""]

\* if isinstance(resp_str, str): the trailing text, or the inner output.
lit_response_field(resp_str) ==
    IF trailing_match(resp_str) # 0 THEN says(StrV(trailing_text(resp_str)))
    ELSE says(inner_output(resp_str))

\* A variant of the branches that looks for generated_text and output before
\* response.
lit_api_data_generated_first(response, data) ==
    IF data.exc # "" THEN [ret |-> None, notice |-> "lit_api_exception"]
    ELSE IF data.kind = "dict" /\ K_generated_text \in DOMAIN data.d
    THEN says(data.d[K_generated_text])
    ELSE IF data.kind = "dict" /\ K_output \in DOMAIN data.d
    THEN says(data.d[K_output])
    ELSE IF data.kind = "dict" /\ K_response \in DOMAIN data.d
    THEN IF data.d[K_response].t = "str"
         THEN lit_response_field(data.d[K_response].s)
         ELSE says(StrV(response.text))
    ELSE says(StrV(response.text))

\* The branches on the decoded body.
lit_api_data(response, data) ==
    IF data.exc # "" THEN [ret |-> None, notice |-> "lit_api_exception"]
    ELSE IF data.kind = "dict" /\ K_response \in DOMAIN data.d
    THEN IF data.d[K_response].t = "str"
         THEN lit_response_field(data.d[K_response].s)
         ELSE says(StrV(response.text))
    ELSE IF data.kind = "dict" /\ K_generated_text \in DOMAIN data.d
    THEN says(data.d[K_generated_text])
    ELSE IF data.kind = "dict" /\ K_output \in DOMAIN data.d
    THEN says(data.d[K_output])
    ELSE says(StrV(response.text))

\* The value the client returns (ret: None or a value, which the API may
\* make a str, a list or a number) and the st.error it emits.
call_lit_api(response) ==
    IF response.kind = "exception"
    THEN [ret |-> None, notice |-> "lit_api_exception"]
    ELSE IF ~response.ok THEN [ret |-> None, notice |-> "lit_api_error"]
    ELSE lit_api_data(response, json_loads(response.text))

\* Python truth value of a returned value.
truthy(v) ==
    IF v.t = "str" THEN v.s # << >>
    ELSE IF v.t = "list" THEN v.l # << >>
    ELSE v.s # <<"0">>

(***************************************************************************)
(* get_openrouter_client, refine_with_deepseek: the stage-2 client         *)
(***************************************************************************)
\* The key the client is built with: the first non-empty of the argument,
\* the session's key and the secrets' key; "" when there is none (the
\* function then returns None).
get_openrouter_client(api_key, session_key, secrets_key) ==
    IF api_key # "" THEN api_key
    ELSE IF session_key # "" THEN session_key
    ELSE secrets_key

\* What client.chat.completions.create gives: an exception (transport, HTTP
\* error) or a completion whose message content is a text or None.
ChatException == [kind |-> "exception", content |-> None]

ChatCompletion(content) == [kind |-> "completion", content |-> content]

\* exc: the exception that escapes ("": none does, every one is caught);
\* ret: the dict returned; called: whether the chat completion was requested;
\* refined: whether ret is the parsed reply; notice: the st.error emitted.
refine_fallback(raw_question, called, notice) ==
    [exc |-> "", ret |-> raw_question, called |-> called, refined |-> FALSE,
     notice |-> notice]

\* From parse_question_response to the return.
refine_parsed(raw_question, refined_data) ==
    IF refined_data.exc # "" THEN refine_fallback(raw_question, TRUE, "refinement_error")
    ELSE IF refined_data.ret # None /\ refined_data.ret[1] # << >>
    THEN [exc |-> "", ret |-> refined_data.ret[1], called |-> TRUE,
          refined |-> TRUE, notice |-> ""]
    ELSE refine_fallback(raw_question, TRUE, "")

\* A variant of the call without the except clause: the exception escapes.
refine_call_uncaught(raw_question, reply) ==
    IF reply.kind = "exception" \/ IsNone(reply.content)
    THEN [exc |-> "Exception", ret |-> << >>, called |-> TRUE, refined |-> FALSE,
          notice |-> ""]
    ELSE refine_parsed(raw_question, parse_question_response(reply.content[1]))

\* The call with a client: an exception of the request, or of .find on a
\* content that is None, is caught.
refine_call(raw_question, reply) ==
    IF reply.kind = "exception" \/ IsNone(reply.content)
    THEN refine_fallback(raw_question, TRUE, "refinement_error")
    ELSE refine_parsed(raw_question, parse_question_response(reply.content[1]))

refine_with_deepseek(raw_question, api_key, session_key, secrets_key, reply) ==
    IF get_openrouter_client(api_key, session_key, secrets_key) = ""
    THEN refine_fallback(raw_question, FALSE, "")
    ELSE refine_call(raw_question, reply)

(***************************************************************************)
(* GeneratedQuestion                                                       *)
(***************************************************************************)
\* f"{opt}" of a list element.
format_scalar(e) == e.s

\* A variant that stores the option without a label.
label_option_plain(i, opt) == format_scalar(opt)

\* f"{chr(65+i)}) {opt}" for the i-th option (i from 1).
label_option(i, opt) == <<Uppercase[i], ")", " ">> \o format_scalar(opt)

\* A variant that never carries an explanation.
get_explanation_dropped(d) == StrV(<< >>)

\* refined_question.get('explanation', '')
get_explanation(d) == IF K_explanation \in DOMAIN d THEN d[K_explanation] ELSE StrV(<< >>)

\* The GeneratedQuestion built from the final candidate (the two time stamps
\* are left out).
GeneratedQuestion(id, topic, d) ==
    [id |-> id,
     topic |-> topic,
     question_text |-> d[K_question],
     options |-> [i \in 1..Len(d[K_options].l) |-> label_option(i, d[K_options].l[i])],
     correct_answer |-> d[K_correct_answer],
     explanation |-> get_explanation(d),
     difficulty |-> "standard"]

\* A variant that removes the label the way parse_llama_response does:
\* opt.split(')', 1)[1].strip().
display_option_stripped(opt) == strip(SubSeq(opt, find(opt, ")") + 1, Len(opt)))

\* opt.split(') ', 1)[1] if ') ' in opt else opt (render_question_display).
display_option(opt) ==
    IF \E i \in 1..(Len(opt) - 1) : opt[i] = ")" /\ opt[i + 1] = " "
    THEN LET i == CHOOSE i \in 1..(Len(opt) - 1) :
                      /\ opt[i] = ")" /\ opt[i + 1] = " "
                      /\ \A j \in 1..(i - 1) : ~(opt[j] = ")" /\ opt[j + 1] = " ")
         IN  SubSeq(opt, i + 2, Len(opt))
    ELSE opt

(***************************************************************************)
(* The remote services' answers and the user's inputs                      *)
(***************************************************************************)
\* Stage-1 texts: a question line, option lines, an answer line.
RawTextGood ==
    <<"Q", NL, "A", ")", " ", "a", NL, "B", ")", " ", "b", NL,
      "C", ")", " ", "c", NL, "D", ")", " ", "d", NL,
      "A", "N", "S", "W", "E", "R", ":", " ", "B">>

RawTextThreeOptions ==
    <<"Q", NL, "A", ")", " ", "a", NL, "B", ")", " ", "b", NL,
      "C", ")", " ", "c", NL, "C", "O", "R", "R", "E", "C", "T", ":", " ", "C">>

\* What the stage-1 endpoint may answer.
Stage1Responses ==
    << HttpException,
       HttpResponse(FALSE, <<"e", "r", "r", "o", "r">>),
       HttpResponse(TRUE, json_dumps(<< <<K_output, StrV(RawTextGood)>> >>)),
       HttpResponse(TRUE, json_dumps(<< <<K_output, StrV(RawTextThreeOptions)>> >>)),
       HttpResponse(TRUE, json_dumps(<< <<K_generated_text, StrV(<< >>)>> >>)),
       HttpResponse(TRUE, RawTextGood) >>

RefinedItems(options, answer) ==
    << <<K_question, StrV(<<"Q", "2">>)>>,
       <<K_options, ListV([i \in 1..Len(options) |-> StrE(options[i])])>>,
       <<K_correct_answer, StrV(answer)>>,
       <<K_explanation, StrV(<<"E">>)>> >>

\* What the stage-2 endpoint may answer.
Stage2Replies ==
    << ChatException,
       ChatCompletion(None),
       ChatCompletion(Some(<<"H", "i", ":", " ">>
           \o json_dumps(RefinedItems(<< <<"w">>, <<"x">>, <<"y">>, <<"z">> >>, <<"D">>)))),
       ChatCompletion(Some(json_dumps(<< <<K_question, StrV(<<"Q", "3">>)>>,
           <<K_options, ListV(<<StrE(<<"w">>), NumE(<<"7">>), StrE(<< >>), StrE(<<"z">>)>>)>>,
           <<K_correct_answer, StrV(<<"B">>)>> >>))),
       ChatCompletion(Some(json_dumps(
           RefinedItems(<< <<"w">>, <<"x">>, <<"y">>, <<"z">> >>, <<"E">>)))),
       ChatCompletion(Some(json_dumps(
           RefinedItems(<< <<"w">>, <<"x">>, <<"y">>, <<"z">>, <<"v">> >>, <<"A">>)))),
       ChatCompletion(Some(json_dumps(RefinedItems(<< <<"w">>, <<"x">>, <<"y">> >>, <<"A">>)))),
       ChatCompletion(Some(<<"s", "o", "r", "r", "y">>)),
       ChatCompletion(Some(<<"{", QUOTE>> \o K_options \o <<QUOTE, ":", " ", DEEP_NESTING, "}">>)) >>

\* The sessions (browser tabs) of the app; each has its own st.session_state.
Sessions == {"s1", "s2"}

Topics == {"kinematics", "gas-laws"}

\* What the user may type into the key field of the settings panel.
KeyInputs == {"", "my-key", "sk-or-1"}

\* The OPENROUTER_API_KEY of st.secrets: absent or set.
SecretKeys == {"", "sk-or-secret"}

\* new_key.startswith('sk-or-')
key_format_ok(k) == k = "sk-or-1"

\* Bounds of the model: questions kept in a session's history.
MaxHistory == 2

MaxHistoryTwo == 1

ProgressStage == {"idle", "generating", "refining", "validating", "complete", "error"}

(***************************************************************************)
(* State                                                                   *)
(***************************************************************************)
VARIABLES
    secrets,              \* st.secrets' OpenRouter key
    openrouter_api_key,   \* st.session_state.openrouter_api_key, per session
    progress_stage,       \* st.session_state.progress_stage
    progress_value,       \* st.session_state.progress_value
    progress_message,     \* st.session_state.progress_message (its kind)
    current_question,     \* st.session_state.current_question (Optional)
    question_history,     \* st.session_state.question_history
    generation_count,     \* st.session_state.generation_count
    pc,                   \* where the session's script run stands
    run,                  \* the locals of the session's latest pipeline run
    notices,              \* the st.error / st.warning boxes of the latest request
    probe                 \* input and result of a function applied on its own

vars == <<secrets, openrouter_api_key, progress_stage, progress_value,
          progress_message, current_question, question_history,
          generation_count, pc, run, notices, probe>>

session_vars == <<secrets, openrouter_api_key, progress_stage, progress_value,
                  progress_message, current_question, question_history,
                  generation_count, pc, run, notices>>

\* The locals of generate_question_with_progress before any run: response
\* and reply are the indexes of the answers the two services gave (0: not
\* asked), seen the stages the run set.
NoRun ==
    [topic |-> "", api_key |-> "", response |-> 0, reply |-> 0,
     raw_question |-> None, refined_question |-> None, question |-> None,
     stage1_calls |-> 0, stage2_calls |-> 0, seen |-> << >>]

NoProbe == [fn |-> "none"]

\* initialize_session_state
InitSessions ==
    /\ secrets \in SecretKeys
    /\ openrouter_api_key = [s \in Sessions |-> ""]
    /\ progress_stage = [s \in Sessions |-> "idle"]
    /\ progress_value = [s \in Sessions |-> 0]
    /\ progress_message = [s \in Sessions |-> "ready"]
    /\ current_question = [s \in Sessions |-> None]
    /\ question_history = [s \in Sessions |-> << >>]
    /\ generation_count = [s \in Sessions |-> 0]
    /\ pc = [s \in Sessions |-> "idle"]
    /\ run = [s \in Sessions |-> NoRun]
    /\ notices = [s \in Sessions |-> {}]

Init == InitSessions /\ probe = NoProbe

(***************************************************************************)
(* generate_question_with_progress (the two-stage definition, which         *)
(* replaces the earlier one of the same name) and its caller, main          *)
(***************************************************************************)
\* st.session_state belongs to the session: the slot a session's run writes.
state_key(s) == s

\* if not llama_response
no_response(ret) == IsNone(ret) \/ ~truthy(ret[1])

\* parse_llama_response on what the client returned: a value that is no str
\* has no strip(); the function catches the AttributeError, reports it and
\* returns None.
parse_llama_value(v) ==
    IF v.t = "str"
    THEN [ret |-> parse_llama_response(v.s), notice |-> ""]
    ELSE [ret |-> None, notice |-> "parse_error"]

\* A variant of the handler that leaves the stage as it was.
stage_left_by_handler == "generating"

\* The stage the except handler sets.
stage_on_exception == "error"

\* The stages set on the way.
stage_after_stage1 == "refining"

\* A variant that goes back to the first stage.
stage_revisited == "generating"

stage_after_refine == "validating"

stage_at_return == "complete"

\* can_generate, for a selected topic.
can_generate(stage) == stage \notin {"generating", "refining", "validating"}

\* str(uuid.uuid4()): a fresh token; the session and the serial number of the
\* question in it.
new_id(s) == <<s, generation_count[s] + 1>>

\* main, lines 888-897: the request is refused without a session key;
\* otherwise the progress is reset and the pipeline is about to be called.
StartRequest(s, topic) ==
    IF openrouter_api_key[s] = ""
    THEN /\ notices' = [notices EXCEPT ![s] = {"no_api_key"}]
         /\ UNCHANGED <<progress_stage, progress_value, pc, run>>
    ELSE /\ progress_stage' = [progress_stage EXCEPT ![state_key(s)] = "generating"]
         /\ progress_value' = [progress_value EXCEPT ![state_key(s)] = 0]
         /\ run' = [run EXCEPT ![s] =
                [NoRun EXCEPT !.topic = topic, !.api_key = openrouter_api_key[s]]]
         /\ pc' = [pc EXCEPT ![s] = "reset"]
         /\ notices' = [notices EXCEPT ![s] = {}]

\* The Generate button, with a topic selected.
Generate(s, topic, cap) ==
    /\ pc[s] = "idle"
    /\ Len(question_history[s]) < cap
    /\ can_generate(progress_stage[state_key(s)])
    /\ StartRequest(s, topic)
    /\ UNCHANGED <<secrets, openrouter_api_key, progress_message, current_question,
                   question_history, generation_count, probe>>

\* The Regenerate button, shown while a question is displayed: the question
\* is cleared; the generation follows when a topic is selected (topic "" is
\* no topic).
Regenerate(s, topic, cap) ==
    /\ pc[s] = "idle"
    /\ Len(question_history[s]) < cap
    /\ current_question[s] # None
    /\ current_question' = [current_question EXCEPT ![s] = None]
    /\ IF topic = ""
       THEN /\ notices' = [notices EXCEPT ![s] = {}]
            /\ UNCHANGED <<progress_stage, progress_value, pc, run>>
       ELSE StartRequest(s, topic)
    /\ UNCHANGED <<secrets, openrouter_api_key, progress_message,
                   question_history, generation_count, probe>>

\* Lines 955-961: the function is entered.
BeginRun(s) ==
    /\ pc[s] = "reset"
    /\ progress_stage' = [progress_stage EXCEPT ![state_key(s)] = "generating"]
    /\ progress_value' = [progress_value EXCEPT ![state_key(s)] = 25]
    /\ progress_message' = [progress_message EXCEPT ![s] = "generating"]
    /\ run' = [run EXCEPT ![s].seen = Append(@, "generating")]
    /\ pc' = [pc EXCEPT ![s] = "generating"]
    /\ UNCHANGED <<secrets, openrouter_api_key, current_question, question_history,
                   generation_count, notices, probe>>

\* A variant of the handler that also puts the percentage back to 0.
Abort_with_reset(s, r, msg, ns) ==
    /\ progress_stage' = [progress_stage EXCEPT ![state_key(s)] = stage_on_exception]
    /\ progress_value' = [progress_value EXCEPT ![state_key(s)] = 0]
    /\ progress_message' = [progress_message EXCEPT ![s] = msg]
    /\ run' = [run EXCEPT ![s] = [r EXCEPT !.question = None,
                                            !.seen = Append(@, stage_on_exception)]]
    /\ notices' = [notices EXCEPT ![s] = ns]
    /\ pc' = [pc EXCEPT ![s] = "returned"]

\* The except handler (lines 1017-1020) after an exception with message msg.
Abort(s, r, msg, ns) ==
    /\ progress_stage' = [progress_stage EXCEPT ![state_key(s)] = stage_on_exception]
    /\ progress_message' = [progress_message EXCEPT ![s] = msg]
    /\ run' = [run EXCEPT ![s] = [r EXCEPT !.question = None,
                                            !.seen = Append(@, stage_on_exception)]]
    /\ notices' = [notices EXCEPT ![s] = ns]
    /\ pc' = [pc EXCEPT ![s] = "returned"]
    /\ UNCHANGED progress_value

\* Lines 978-981: the candidate is kept and the refinement begins.
Stage1Parsed(s, r, parsed, ns) ==
    IF IsNone(parsed.ret)
    THEN Abort(s, r, "error_parse", ns)
    ELSE /\ progress_stage' = [progress_stage EXCEPT ![state_key(s)] = stage_after_stage1]
         /\ progress_value' = [progress_value EXCEPT ![state_key(s)] = 60]
         /\ progress_message' = [progress_message EXCEPT ![s] = "refining"]
         /\ run' = [run EXCEPT ![s] = [r EXCEPT !.raw_question = parsed.ret,
                                                 !.seen = Append(@, stage_after_stage1)]]
         /\ notices' = [notices EXCEPT ![s] = ns]
         /\ pc' = [pc EXCEPT ![s] = "refining"]

\* A variant that asks the endpoint again when it got no response.
Stage1Called_with_retry(s, r, api, ns) ==
    IF no_response(api.ret) /\ r.stage1_calls < 2
    THEN /\ run' = [run EXCEPT ![s] = r]
         /\ notices' = [notices EXCEPT ![s] = ns \cup ({api.notice} \ {""})]
         /\ UNCHANGED <<progress_stage, progress_value, progress_message, pc>>
    ELSE IF no_response(api.ret)
    THEN Abort(s, r, "error_no_response", ns \cup ({api.notice} \ {""}))
    ELSE Stage1Parsed(s, r, parse_llama_value(api.ret[1]), ns \cup ({api.notice} \ {""}))

\* Lines 969-976, api being what call_lit_api returned.
Stage1Called(s, r, api, ns) ==
    IF no_response(api.ret)
    THEN Abort(s, r, "error_no_response", ns \cup ({api.notice} \ {""}))
    ELSE Stage1Parsed(s, r, parse_llama_value(api.ret[1]), ns \cup ({api.notice} \ {""}))

\* Lines 963-981: the stage-1 call and the parse; the endpoint answers
\* Stage1Responses[i].
Stage1(s, i) ==
    /\ pc[s] = "generating"
    /\ Stage1Called(s, [run[s] EXCEPT !.response = i, !.stage1_calls = @ + 1],
                    call_lit_api(Stage1Responses[i]), notices[s])
    /\ UNCHANGED <<secrets, openrouter_api_key, current_question, question_history,
                   generation_count, probe>>

\* Lines 986-994, ref being what refine_with_deepseek returned: the fallback
\* when it returned nothing, and the move to validating.
Stage2Refined(s, j, ref) ==
    IF ref.exc # ""
    THEN Abort(s, [run[s] EXCEPT !.reply = j, !.stage2_calls = @ + 1],
               "error_refine", notices[s] \cup ({ref.notice} \ {""}))
    ELSE /\ progress_stage' = [progress_stage EXCEPT ![state_key(s)] = stage_after_refine]
         /\ progress_value' = [progress_value EXCEPT ![state_key(s)] = 85]
         /\ progress_message' = [progress_message EXCEPT ![s] = "validating"]
         /\ run' = [run EXCEPT ![s].reply = IF ref.called THEN j ELSE 0,
                               ![s].stage2_calls = IF ref.called THEN @ + 1 ELSE @,
                               ![s].refined_question =
                                   IF ref.ret = << >> THEN run[s].raw_question
                                   ELSE Some(ref.ret),
                               ![s].seen = Append(@, stage_after_refine)]
         /\ notices' = [notices EXCEPT ![s] =
                (@ \cup ({ref.notice} \ {""}))
                \cup (IF ref.ret = << >> THEN {"refinement_warning"} ELSE {})]
         /\ pc' = [pc EXCEPT ![s] = "validating"]

\* Lines 984-994: the refinement; the endpoint answers Stage2Replies[j].
Stage2(s, j) ==
    /\ pc[s] = "refining"
    /\ Stage2Refined(s, j,
           refine_with_deepseek(run[s].raw_question[1], run[s].api_key,
                                openrouter_api_key[s], secrets, Stage2Replies[j]))
    /\ UNCHANGED <<secrets, openrouter_api_key, current_question, question_history,
                   generation_count, probe>>

\* Lines 996-1015: the question is assembled and returned.
Complete(s) ==
    /\ pc[s] = "validating"
    /\ progress_stage' = [progress_stage EXCEPT ![state_key(s)] = stage_at_return]
    /\ progress_value' = [progress_value EXCEPT ![state_key(s)] = 100]
    /\ progress_message' = [progress_message EXCEPT ![s] = "generated"]
    /\ run' = [run EXCEPT ![s].question =
                   Some(GeneratedQuestion(new_id(s), run[s].topic,
                                          run[s].refined_question[1])),
               ![s].seen = Append(@, stage_at_return)]
    /\ pc' = [pc EXCEPT ![s] = "returned"]
    /\ UNCHANGED <<secrets, openrouter_api_key, current_question, question_history,
                   generation_count, notices, probe>>

\* A variant that shows the question and does not record it.
HandleResult_without_history(s) ==
    /\ pc[s] = "returned"
    /\ IF run[s].question # None
       THEN /\ current_question' = [current_question EXCEPT ![s] = run[s].question]
            /\ generation_count' = [generation_count EXCEPT ![s] = @ + 1]
            /\ UNCHANGED notices
       ELSE /\ notices' = [notices EXCEPT ![s] = @ \cup {"generate_failed"}]
            /\ UNCHANGED <<current_question, generation_count>>
    /\ pc' = [pc EXCEPT ![s] = "idle"]
    /\ UNCHANGED <<secrets, openrouter_api_key, progress_stage, progress_value,
                   progress_message, question_history, run, probe>>

\* A variant that counts the failed runs too.
HandleResult_counting_failures(s) ==
    /\ pc[s] = "returned"
    /\ IF run[s].question # None
       THEN /\ current_question' = [current_question EXCEPT ![s] = run[s].question]
            /\ question_history' =
                   [question_history EXCEPT ![s] = <<run[s].question[1]>> \o @]
            /\ UNCHANGED notices
       ELSE /\ notices' = [notices EXCEPT ![s] = @ \cup {"generate_failed"}]
            /\ UNCHANGED <<current_question, question_history>>
    /\ generation_count' = [generation_count EXCEPT ![s] = @ + 1]
    /\ pc' = [pc EXCEPT ![s] = "idle"]
    /\ UNCHANGED <<secrets, openrouter_api_key, progress_stage, progress_value,
                   progress_message, run, probe>>

\* main, lines 910-921: the returned question is shown and recorded, or the
\* failure is reported.
HandleResult(s) ==
    /\ pc[s] = "returned"
    /\ IF run[s].question # None
       THEN /\ current_question' = [current_question EXCEPT ![s] = run[s].question]
            /\ question_history' =
                   [question_history EXCEPT ![s] = <<run[s].question[1]>> \o @]
            /\ generation_count' = [generation_count EXCEPT ![s] = @ + 1]
            /\ UNCHANGED notices
       ELSE /\ notices' = [notices EXCEPT ![s] = @ \cup {"generate_failed"}]
            /\ UNCHANGED <<current_question, question_history, generation_count>>
    /\ pc' = [pc EXCEPT ![s] = "idle"]
    /\ UNCHANGED <<secrets, openrouter_api_key, progress_stage, progress_value,
                   progress_message, run, probe>>

\* render_question_history: one of the five latest questions is loaded.
LoadQuestion(s, i) ==
    /\ pc[s] = "idle"
    /\ i \in 1..Len(question_history[s])
    /\ i <= 5
    /\ current_question' = [current_question EXCEPT ![s] = Some(question_history[s][i])]
    /\ notices' = [notices EXCEPT ![s] = {}]
    /\ UNCHANGED <<secrets, openrouter_api_key, progress_stage, progress_value,
                   progress_message, question_history, generation_count, pc, run, probe>>

\* render_settings_panel: the Save Key button.
SaveKey(s, new_key) ==
    /\ pc[s] = "idle"
    /\ IF new_key # "" /\ key_format_ok(new_key)
       THEN /\ openrouter_api_key' = [openrouter_api_key EXCEPT ![s] = new_key]
            /\ notices' = [notices EXCEPT ![s] = {}]
       ELSE /\ notices' = [notices EXCEPT ![s] = {"invalid_key"}]
            /\ UNCHANGED openrouter_api_key
    /\ UNCHANGED <<secrets, progress_stage, progress_value, progress_message,
                   current_question, question_history, generation_count, pc, run, probe>>

\* One session, every answer of the two services.
Next ==
    \E s \in {"s1"} :
        \/ \E k \in KeyInputs : SaveKey(s, k)
        \/ \E t \in Topics : Generate(s, t, MaxHistory)
        \/ \E t \in Topics \cup {""} : Regenerate(s, t, MaxHistory)
        \/ BeginRun(s)
        \/ \E i \in 1..Len(Stage1Responses) : Stage1(s, i)
        \/ \E j \in 1..Len(Stage2Replies) : Stage2(s, j)
        \/ Complete(s)
        \/ HandleResult(s)
        \/ \E i \in 1..MaxHistory : LoadQuestion(s, i)

Spec == Init /\ [][Next]_vars

\* The script of a session runs on: a run that was requested is entered,
\* each remote call returns, and the statements after it are executed.
Fairness ==
    \A s \in Sessions :
        /\ WF_vars(BeginRun(s))
        /\ WF_vars(\E i \in 1..Len(Stage1Responses) : Stage1(s, i))
        /\ WF_vars(\E j \in 1..Len(Stage2Replies) : Stage2(s, j))
        /\ WF_vars(Complete(s))
        /\ WF_vars(HandleResult(s))

SpecLive == Init /\ [][Next]_vars /\ Fairness

\* Two sessions side by side, each with one topic, two failing and a good
\* answer of stage 1, a failing and a good answer of stage 2.
NextTwo ==
    \E s \in Sessions :
        \/ SaveKey(s, "sk-or-1")
        \/ Generate(s, "kinematics", MaxHistoryTwo)
        \/ BeginRun(s)
        \/ \E i \in {1, 2, 3} : Stage1(s, i)
        \/ \E j \in {1, 3} : Stage2(s, j)
        \/ Complete(s)
        \/ HandleResult(s)

SpecTwo == Init /\ [][NextTwo]_vars

(***************************************************************************)
(* parse_llama_response applied on its own                                 *)
(***************************************************************************)
\* Longest text, in lines.
MaxLines == 7

VelocityLines ==
    << <<"W", "h", "a", "t", " ", "i", "s", " ", "v", "e", "l", "o", "c", "i", "t", "y", "?">>,
       <<"A", ")", " ", "S", "p", "e", "e", "d">>,
       <<"B", ")", " ", "S", "p", "e", "e", "d", " ", "w", "i", "t", "h", " ",
         "d", "i", "r", "e", "c", "t", "i", "o", "n">>,
       <<"C", ")", " ", "A", "c", "c", "e", "l", "e", "r", "a", "t", "i", "o", "n">>,
       <<"D", ")", " ", "F", "o", "r", "c", "e">>,
       <<"A", "N", "S", "W", "E", "R", ":", " ", "B">> >>

CorrectLines ==
    << <<"Q">>, <<"A", ")", " ", "a">>, <<"B", ")", " ", "b">>, <<"C", ")", " ", "c">>,
       <<"D", ")", " ", "d">>, <<"C", "O", "R", "R", "E", "C", "T", ":", " ", "D">> >>

\* The lines texts are built from: a question line, two option lines (one
\* indented, with an empty text), an answer line in lower case, a blank line.
ProbeLines ==
    { <<"Q", "?">>,
      <<"A", ")", " ", "a">>,
      <<" ", "D", ")", " ">>,
      <<"a", "n", "s", "w", "e", "r", ":", " ", "b">>,
      << >> }

\* The lines of a text, what the loop of parse_llama_response gathers from
\* the text, and the result the function returns for it.
LlamaGathered(lines, gathered) ==
    [fn |-> "llama", lines |-> lines, gathered |-> gathered,
     out |-> llama_result(gathered)]

LlamaProbe(lines) == LlamaGathered(lines, llama_scan_text(join(lines, <<NL>>)))

InitLlama == InitSessions /\ secrets = "" /\ probe = LlamaProbe(<< >>)

\* A whole text is parsed.
ParseText(lines) ==
    /\ probe.fn = "llama"
    /\ probe.lines = << >>
    /\ probe' = LlamaProbe(lines)
    /\ UNCHANGED session_vars

\* One more line of text, and the parse of the whole.
AppendLine(line) ==
    /\ probe.fn = "llama"
    /\ Len(probe.lines) < MaxLines
    /\ probe' = LlamaProbe(Append(probe.lines, line))
    /\ UNCHANGED session_vars

NextLlama ==
    \/ \E lines \in {VelocityLines, CorrectLines} : ParseText(lines)
    \/ \E line \in ProbeLines : AppendLine(line)

SpecLlama == InitLlama /\ [][NextLlama]_vars

(***************************************************************************)
(* parse_question_response applied on its own                              *)
(***************************************************************************)
\* Longest options list.
MaxOptions == 5

QuestionStrings == {<<"Q">>, <<"}">>, <<"{", QUOTE>>, << >>, <<BACKSLASH, NL>>}

OptionStrings == {<<"x">>, << >>, <<"}">>}

ExplanationStrings == {<<"E">>, <<"}", " ">>}

\* Prose before and after the JSON object.
Prefixes == {<< >>, <<"H", "i", ":", " ">>, <<"{">>, <<"}", " ">>}

Suffixes == {<< >>, <<" ", "o", "k">>, <<"}">>, <<NL, "{">>}

\* The items of a question object, in the order of the prompt's schema.
QuestionItems(q, opts, a, e) ==
    << <<K_question, StrV(q)>>,
       <<K_options, ListV([i \in 1..Len(opts) |-> StrE(opts[i])])>>,
       <<K_correct_answer, StrV(a)>>,
       <<K_explanation, StrV(e)>> >>

\* The items without the one of key k.
RECURSIVE without_key(_, _)
without_key(items, k) ==
    IF items = << >> THEN << >>
    ELSE IF Head(items)[1] = k THEN without_key(Tail(items), k)
    ELSE <<Head(items)>> \o without_key(Tail(items), k)

JsonProbe(case, items, text) ==
    [fn |-> "json", case |-> case, items |-> items, text |-> text,
     out |-> parse_question_response(text)]

InitJson == InitSessions /\ secrets = "" /\ probe = JsonProbe("empty", << >>, << >>)

\* A valid object is encoded and the text parsed.
JsonRoundTrip(q, opts, a, e) ==
    /\ probe.fn = "json" /\ probe.case = "empty"
    /\ probe' = JsonProbe("roundtrip", QuestionItems(q, opts, a, e),
                          json_dumps(QuestionItems(q, opts, a, e)))
    /\ UNCHANGED session_vars

\* The same with prose around the encoded object.
JsonProse(prefix, suffix, q, a) ==
    /\ probe.fn = "json" /\ probe.case = "empty"
    /\ probe' = JsonProbe("prose", QuestionItems(q, <<<<"w">>, <<"x">>, <<"y">>, <<"z">>>>, a, <<"E">>),
                          prefix \o json_dumps(QuestionItems(q, <<<<"w">>, <<"x">>, <<"y">>, <<"z">>>>, a, <<"E">>))
                          \o suffix)
    /\ UNCHANGED session_vars

\* An object with n options, answer a and the item of key k left out.
JsonObject(n, a, k) ==
    /\ probe.fn = "json" /\ probe.case = "empty"
    /\ probe' = JsonProbe("object",
                          without_key(QuestionItems(<<"Q">>, [i \in 1..n |-> <<"x">>], a, <<"E">>), k),
                          json_dumps(without_key(
                              QuestionItems(<<"Q">>, [i \in 1..n |-> <<"x">>], a, <<"E">>), k)))
    /\ UNCHANGED session_vars

\* An object whose options or answer have another type.
JsonTyped(items) ==
    /\ probe.fn = "json" /\ probe.case = "empty"
    /\ probe' = JsonProbe("typed", items, json_dumps(items))
    /\ UNCHANGED session_vars

\* The first n characters of an encoded object.
JsonTruncated(n) ==
    /\ probe.fn = "json" /\ probe.case = "empty"
    /\ n < Len(json_dumps(QuestionItems(<<"Q">>, <<<<"w">>, <<"x">>, <<"y">>, <<"z">>>>, <<"A">>, <<"E">>)))
    /\ probe' = JsonProbe("truncated", << >>,
          SubSeq(json_dumps(QuestionItems(<<"Q">>, <<<<"w">>, <<"x">>, <<"y">>, <<"z">>>>, <<"A">>, <<"E">>)),
                 1, n))
    /\ UNCHANGED session_vars

\* A reply nested deeper than the decoder's recursion allows.
JsonDeep ==
    /\ probe.fn = "json" /\ probe.case = "empty"
    /\ probe' = JsonProbe("deep", << >>,
                          <<"{", QUOTE>> \o K_options \o <<QUOTE, ":", " ", DEEP_NESTING, "}">>)
    /\ UNCHANGED session_vars

TypedItems ==
    { << <<K_question, StrV(<<"Q">>)>>, <<K_options, StrV(<<"w", "x", "y", "z">>)>>,
         <<K_correct_answer, StrV(<<"A">>)>> >>,
      << <<K_question, StrV(<<"Q">>)>>,
         <<K_options, ListV(<<StrE(<<"w">>), StrE(<<"x">>), StrE(<<"y">>), StrE(<<"z">>)>>)>>,
         <<K_correct_answer, ListV(<<StrE(<<"A">>)>>)>> >>,
      << <<K_question, NumV(<<"7">>)>>,
         <<K_options, ListV(<<NumE(<<"1">>), NumE(<<"2">>), NumE(<<"3">>), NumE(<<"4">>)>>)>>,
         <<K_correct_answer, StrV(<<"D">>)>> >>,
      << <<K_question, StrV(<<"Q">>)>>,
         <<K_options, ListV(<<StrE(<<"w">>), StrE(<<"x">>), StrE(<<"y">>), StrE(<<"z">>)>>)>>,
         <<K_correct_answer, StrV(<<"A">>)>>, <<K_correct_answer, NumV(<<"7">>)>> >> }

NextJson ==
    \/ \E q \in QuestionStrings, a \in AnswerLetters, e \in ExplanationStrings :
           \E o1 \in OptionStrings, o2 \in OptionStrings, o3 \in OptionStrings,
              o4 \in OptionStrings : JsonRoundTrip(q, <<o1, o2, o3, o4>>, a, e)
    \/ \E prefix \in Prefixes, suffix \in Suffixes, q \in QuestionStrings,
          a \in AnswerLetters : JsonProse(prefix, suffix, q, a)
    \/ \E n \in 0..MaxOptions, a \in AnswerLetters \cup {<<"E">>, <<"a">>, <<"A", "B">>, << >>},
          k \in {K_question, K_options, K_correct_answer, K_explanation, K_confidence} :
           JsonObject(n, a, k)
    \/ \E items \in TypedItems : JsonTyped(items)
    \/ \E n \in 0..80 : JsonTruncated(n)
    \/ JsonDeep

SpecJson == InitJson /\ [][NextJson]_vars

(***************************************************************************)
(* call_lit_api applied on its own                                         *)
(***************************************************************************)
\* An embedded JSON object with a text in it that holds a '}' and a blank,
\* followed by a blank and the generated text t.
BraceInText ==
    json_dumps(<< <<K_question, StrV(<<"}", " ">>)>> >>) \o <<" ", "t">>

\* What the body may carry under 'response': a plain text, an embedded JSON
\* object followed by text (the object empty, or with a '}' in a text of
\* it), an embedded JSON object with an output, a number.
ResponseValues ==
    {StrV(<<"r">>),
     StrV(<<"{", "}", " ", "t">>),
     StrV(BraceInText),
     StrV(json_dumps(<< <<K_output, StrV(<<"i">>)>> >>)),
     NumV(<<"5">>)}

\* The item of key k when the field is present (v is None or Some value).
field(k, v) == IF IsNone(v) THEN << >> ELSE << <<k, v[1]>> >>

\* The bodies with any of the three fields, in either order of the keys.
LitItems ==
    UNION {{field(K_response, r) \o field(K_generated_text, g) \o field(K_output, o),
            field(K_output, o) \o field(K_generated_text, g) \o field(K_response, r)} :
           r \in {None} \cup {Some(v) : v \in ResponseValues},
           g \in {None, Some(StrV(<<"g">>))},
           o \in {None, Some(StrV(<<"o">>))}}

\* What requests.post may give: an exception, an error status, a success
\* with a JSON object, with another JSON value or with a body that is no JSON.
LitResponses ==
    {HttpException,
     HttpResponse(FALSE, <<"e", "r", "r", "o", "r">>),
     HttpResponse(FALSE, json_dumps(<< <<K_output, StrV(<<"o">>)>> >>)),
     HttpResponse(TRUE, <<"[", "]">>),
     HttpResponse(TRUE, <<"o", "o", "p", "s">>)}
    \cup {HttpResponse(TRUE, json_dumps(items)) : items \in LitItems}

\* The probe keeps the latest two calls, the older first.
InitLit == InitSessions /\ secrets = "" /\ probe = [fn |-> "lit", calls |-> << >>]

LitCall(response) ==
    /\ probe.fn = "lit"
    /\ probe' = [fn |-> "lit",
                 calls |-> (IF probe.calls = << >> THEN << >>
                            ELSE <<probe.calls[Len(probe.calls)]>>)
                           \o <<[response |-> response, out |-> call_lit_api(response)]>>]
    /\ UNCHANGED session_vars

NextLit == \E response \in LitResponses : LitCall(response)

SpecLit == InitLit /\ [][NextLit]_vars

(***************************************************************************)
(* The option labels: assembly and display applied on their own            *)
(***************************************************************************)
\* format_func of the radio buttons: f"{chr(65+i)}) {option_labels[i]}" (i
\* from 1).
format_func(i, option_label) == <<Uppercase[i], ")", " ">> \o option_label

MaxText == 3

\* The option texts: every text of at most MaxText characters out of a
\* letter, a closing parenthesis and a blank.
OptionTexts ==
    UNION {[1..n -> {"a", ")", " "}] : n \in 0..MaxText}

\* The option text t at position i of the candidate: the form line 1003
\* stores, the text line 696 gets back from it, the label line 700 shows.
LabelProbe(case, i, t) ==
    [fn |-> "label", case |-> case, i |-> i, text |-> t,
     stored |-> label_option(i, StrV(t)),
     option_label |-> display_option(label_option(i, StrV(t))),
     shown |-> format_func(i, display_option(label_option(i, StrV(t))))]

InitLabel == InitSessions /\ secrets = "" /\ probe = LabelProbe("empty", 1, << >>)

\* An option is stored and displayed.
LabelRoundTrip(i, t) ==
    /\ probe.fn = "label" /\ probe.case = "empty"
    /\ probe' = LabelProbe("roundtrip", i, t)
    /\ UNCHANGED session_vars

NextLabel == \E i \in 1..4, t \in OptionTexts : LabelRoundTrip(i, t)

SpecLabel == InitLabel /\ [][NextLabel]_vars

(***************************************************************************)
(* app.py: generate_question of the Gradio interface                       *)
(***************************************************************************)
\* The keys of IB_PHYSICS_TOPICS (two of the twelve) and DIFFICULTY_LEVELS.
IB_PHYSICS_TOPICS == {"mechanics", "waves"}

DIFFICULTY_LEVELS == {"easy", "standard", "hard"}

\* The values response.json() yields besides texts: true and false, null,
\* an object (d: its items).
BoolV(b) == [t |-> "bool", b |-> b]

NullV == [t |-> "null"]

DictV(d) == [t |-> "dict", d |-> d]

\* Python truth value of such a value.
is_true(v) ==
    CASE v.t = "bool" -> v.b
      [] v.t = "null" -> FALSE
      [] v.t = "dict" -> DOMAIN v.d # {}
      [] OTHER -> truthy(v)

\* d.get(k, default) of a dict.
dict_get(d, k, default) == IF k \in DOMAIN d THEN d[k] ELSE default

\* request_data: the key and the provider are added for a key that is not
\* blank.
request_data(topic, difficulty, api_key) ==
    [topic |-> topic, difficulty |-> difficulty, type |-> "multiple-choice"]
    @@ (IF strip(api_key) # << >>
        THEN [openRouterApiKey |-> strip(api_key),
              refinementProvider |-> "openrouter"]
        ELSE << >>)

\* A status message: its kind and what it quotes.
status(kind, detail) == [kind |-> kind, detail |-> detail]

\* What the function returns: the pair (text, status); raised is the class
\* of an exception that leaves the function, sent the requests it posted.
returned(text, message, sent) ==
    [raised |-> "", text |-> text, status |-> message, sent |-> sent]

\* A variant without the last handler: only the two named classes are caught.
except_clauses_named_only(exc, sent) ==
    CASE exc = "Timeout" -> returned(<< >>, status("timed_out", << >>), Len(sent))
      [] exc = "ConnectionError" -> returned(<< >>, status("cannot_connect", << >>), Len(sent))
      [] OTHER -> [raised |-> exc, text |-> << >>, status |-> status("", << >>), sent |-> Len(sent)]

\* The three except clauses, for an exception of class exc.
except_clauses(exc, sent) ==
    CASE exc = "Timeout" -> returned(<< >>, status("timed_out", << >>), Len(sent))
      [] exc = "ConnectionError" -> returned(<< >>, status("cannot_connect", << >>), Len(sent))
      [] OTHER -> returned(<< >>, status("unexpected_error", exc), Len(sent))

\* The metadata text: the labels of topic and difficulty and the question
\* text, between fixed pieces.
metadata(topic, difficulty, question_text) ==
    <<"**Topic:** ", topic, "**Difficulty:** ", difficulty,
      "**Type:** Multiple Choice (Paper 1 style)", "---", question_text>>

\* The status of a success: the provider, and the note on the fallback.
success_status(d) ==
    status("generated",
           [provider |-> dict_get(d, "provider", StrV(<<"demo">>)),
            fallback |-> is_true(dict_get(d, "fallbackUsed", NullV))])

\* Lines 148-172, d being the decoded body: question.get fails on a value
\* that is no object.
status_200_dict(topic, difficulty, d, sent) ==
    IF is_true(dict_get(d, "success", NullV)) /\ is_true(dict_get(d, "question", NullV))
    THEN IF d["question"].t # "dict"
         THEN except_clauses("AttributeError", sent)
         ELSE returned(metadata(topic, difficulty,
                                dict_get(d["question"].d, "questionText", StrV(<< >>))),
                       success_status(d), Len(sent))
    ELSE returned(<< >>, status("failed", dict_get(d, "error", StrV(<<"Unknown error occurred">>))),
                  Len(sent))

\* Lines 146-172: response.json() raises on a body that is no JSON, and
\* data.get fails on a value that is no object.
status_200(topic, difficulty, response, sent) ==
    IF response.data.t = "invalid" THEN except_clauses("JSONDecodeError", sent)
    ELSE IF response.data.t # "dict" THEN except_clauses("AttributeError", sent)
    ELSE status_200_dict(topic, difficulty, response.data.d, sent)

\* Lines 174-182: the error of the body, or the body as text; the bare
\* except covers a body that is no JSON or no object.
error_detail(response) ==
    IF response.data.t = "dict"
    THEN dict_get(response.data.d, "error", StrV(response.text))
    ELSE StrV(response.text)

\* Lines 139-182, backend being what requests.post gives for the request.
posted(topic, difficulty, backend, sent) ==
    IF backend.kind = "exception" THEN except_clauses(backend.exc, sent)
    ELSE IF backend.status_code = 200 THEN status_200(topic, difficulty, backend, sent)
    ELSE returned(<< >>, status("api_error", [status_code |-> backend.status_code,
                                       error_detail |-> error_detail(backend)]),
                  Len(sent))

generate_question(topic, difficulty, api_key, backend) ==
    IF topic = "" \/ topic \notin IB_PHYSICS_TOPICS
    THEN returned(<< >>, status("invalid_topic", << >>), 0)
    ELSE IF difficulty = "" \/ difficulty \notin DIFFICULTY_LEVELS
    THEN returned(<< >>, status("invalid_difficulty", << >>), 0)
    ELSE posted(topic, difficulty, backend,
                <<request_data(topic, difficulty, api_key)>>)

\* The inputs of the interface: a topic of the catalog, another and none;
\* the three difficulties, another and none; no key, a blank key, a key.
GradioTopics == {"mechanics", "alchemy", ""}

GradioDifficulties == {"easy", "standard", "hard", "extreme", ""}

GradioKeys == {<< >>, <<" ">>, <<"s", "k">>}

\* The item of key k with value v when present (p).
item(p, k, v) == IF p THEN k :> v ELSE << >>

\* The decoded bodies: no JSON, a list, and the objects with or without
\* each of success, question, error and fallbackUsed; the question an
\* object with or without a text, an empty object, null, or a text.
GradioQuestions ==
    {DictV([questionText |-> StrV(<<"Q">>)]), DictV([id |-> StrV(<<"7">>)]),
     DictV(<< >>), NullV, StrV(<<"Q">>)}

GradioBodies ==
    {[t |-> "invalid"], ListV(<< >>)}
    \cup {DictV(item(s # NullV, "success", s) @@ item(q # << >>, "question", q[1])
                @@ item(e, "error", StrV(<<"e">>)) @@ item(f, "fallbackUsed", BoolV(TRUE))) :
          s \in {NullV, BoolV(TRUE), BoolV(FALSE)},
          q \in {<< >>} \cup {<<v>> : v \in GradioQuestions},
          e \in BOOLEAN, f \in BOOLEAN}

\* What requests.post gives: a timeout, a connection error, another
\* exception of requests, or a response with a status and a body.
Backends ==
    {[kind |-> "exception", exc |-> x] : x \in {"Timeout", "ConnectionError", "TooManyRedirects"}}
    \cup {[kind |-> "response", status_code |-> c, data |-> b, text |-> <<"body">>] :
          c \in {200, 500}, b \in GradioBodies}

GradioProbe(case, topic, difficulty, key, backend) ==
    [fn |-> "gradio", case |-> case, topic |-> topic, difficulty |-> difficulty,
     key |-> key, backend |-> backend,
     out |-> generate_question(topic, difficulty, key, backend)]

InitGradio ==
    /\ InitSessions /\ secrets = ""
    /\ probe = GradioProbe("empty", "", "", << >>, [kind |-> "exception", exc |-> "Timeout"])

\* The Generate button of the interface.
GradioCall(topic, difficulty, key, backend) ==
    /\ probe.fn = "gradio" /\ probe.case = "empty"
    /\ probe' = GradioProbe("called", topic, difficulty, key, backend)
    /\ UNCHANGED session_vars

NextGradio ==
    \E topic \in GradioTopics, difficulty \in GradioDifficulties, key \in GradioKeys,
       backend \in Backends : GradioCall(topic, difficulty, key, backend)

SpecGradio == InitGradio /\ [][NextGradio]_vars

(***************************************************************************)
(* app.py: main, start_nextjs_server in its thread, stop_nextjs_server     *)
(***************************************************************************)
\* The attempts of the health check (30 in the code, fewer here).
max_attempts == 2

\* The state of the process: the global NEXTJS_PROCESS (None, or the handle
\* of the child), the child (npm run dev, in a session of its own), whether
\* node_modules exists, where the thread of start_nextjs_server stands and
\* what it returned, where main stands, where the call of stop_nextjs_server
\* in progress stands, and the number of calls of it that returned.
ServerInit(node_modules) ==
    [fn |-> "server", NEXTJS_PROCESS |-> None, child |-> "none",
     node_modules |-> node_modules, thread |-> "unstarted", attempt |-> 0,
     started |-> None, main |-> "start", stop |-> "idle", stops |-> 0]

InitServer ==
    /\ InitSessions /\ secrets = ""
    /\ probe \in {ServerInit(node_modules) : node_modules \in BOOLEAN}

\* The thread runs while the interpreter does.
ThreadAt(where) == probe.fn = "server" /\ probe.main # "exited" /\ probe.thread = where

MainAt(where) == probe.fn = "server" /\ probe.main = where /\ probe.stop = "idle"

StopAt(where) == probe.fn = "server" /\ probe.stop = where

\* main, lines 385-387: the daemon thread is started.
MainStartThread ==
    /\ MainAt("start")
    /\ probe' = [probe EXCEPT !.thread = "entered", !.main = "sleeping"]
    /\ UNCHANGED session_vars

\* Lines 390-393: after the sleep the interface is created.
MainWake ==
    /\ MainAt("sleeping")
    /\ probe' = [probe EXCEPT !.main = "launching"]
    /\ UNCHANGED session_vars

\* Lines 396-404: interface.launch serves, or raises and the finally clause
\* calls stop_nextjs_server.
MainLaunch(fails) ==
    /\ MainAt("launching")
    /\ probe' = IF fails THEN [probe EXCEPT !.main = "finally", !.stop = "called"]
                ELSE [probe EXCEPT !.main = "serving"]
    /\ UNCHANGED session_vars

\* signal_handler, lines 372-375: SIGINT or SIGTERM reaches the main thread,
\* which calls stop_nextjs_server and then sys.exit.
SignalHandler ==
    /\ probe.fn = "server"
    /\ probe.main \in {"start", "sleeping", "launching", "serving"}
    /\ probe.stop = "idle"
    /\ probe' = [probe EXCEPT !.main = "handler", !.stop = "called"]
    /\ UNCHANGED session_vars

\* stop_nextjs_server, line 95: if NEXTJS_PROCESS.
StopCheck ==
    /\ StopAt("called")
    /\ probe' = [probe EXCEPT !.stop = IF probe.NEXTJS_PROCESS = None
                                        THEN "returned" ELSE "kill"]
    /\ UNCHANGED session_vars

\* Line 100: the group of the child is signalled; for a child that is gone
\* os.getpgid raises and the except clause reports it.
StopKill ==
    /\ StopAt("kill")
    /\ probe' = [probe EXCEPT !.stop = IF probe.child = "running"
                                        THEN "wait" ELSE "returned"]
    /\ UNCHANGED session_vars

\* Line 101: wait(timeout=10) returns when the child has ended, or raises
\* TimeoutExpired, which the except clause reports.
StopWait(ended) ==
    /\ StopAt("wait")
    /\ probe' = [probe EXCEPT !.stop = "returned",
                              !.child = IF ended THEN "terminated" ELSE @]
    /\ UNCHANGED session_vars

\* The call returns: the handler goes on to sys.exit, whose SystemExit runs
\* the finally clause of main (one more call); after the finally clause the
\* interpreter ends, and the daemon thread with it.
StopReturn ==
    /\ StopAt("returned")
    /\ probe' = IF probe.main = "handler"
                THEN [probe EXCEPT !.stops = @ + 1, !.main = "finally", !.stop = "called"]
                ELSE [probe EXCEPT !.stops = @ + 1, !.main = "exited", !.stop = "idle",
                                   !.thread = IF @ \in {"unstarted", "returned"}
                                              THEN @ ELSE "ended_with_main"]
    /\ UNCHANGED session_vars

\* start_nextjs_server, lines 56-58.
ThreadCheckModules ==
    /\ ThreadAt("entered")
    /\ probe' = [probe EXCEPT !.thread = IF probe.node_modules
                                          THEN "spawn" ELSE "installing"]
    /\ UNCHANGED session_vars

\* Line 58: npm install ends well, or fails and the except clause returns
\* False.
ThreadInstall(ok) ==
    /\ ThreadAt("installing")
    /\ probe' = IF ok THEN [probe EXCEPT !.thread = "spawn", !.node_modules = TRUE]
                ELSE [probe EXCEPT !.thread = "returned", !.started = Some(FALSE)]
    /\ UNCHANGED session_vars

\* Lines 62-68: subprocess.Popen starts the child, or raises.
ThreadSpawn(ok) ==
    /\ ThreadAt("spawn")
    /\ probe' = IF ok THEN [probe EXCEPT !.thread = "assign", !.child = "running"]
                ELSE [probe EXCEPT !.thread = "returned", !.started = Some(FALSE)]
    /\ UNCHANGED session_vars

\* Line 62: the handle is stored in the global.
ThreadAssign ==
    /\ ThreadAt("assign")
    /\ probe' = [probe EXCEPT !.thread = "poll", !.NEXTJS_PROCESS = Some("child")]
    /\ UNCHANGED session_vars

\* Lines 72-83: one health check; ready when it answers 200.
ThreadPoll(ready) ==
    /\ ThreadAt("poll")
    /\ probe' = IF ready
                THEN [probe EXCEPT !.thread = "returned", !.started = Some(TRUE)]
                ELSE IF probe.attempt + 1 < max_attempts
                THEN [probe EXCEPT !.attempt = @ + 1]
                ELSE [probe EXCEPT !.attempt = @ + 1, !.thread = "returned",
                                   !.started = Some(FALSE)]
    /\ UNCHANGED session_vars

NextServer ==
    \/ MainStartThread
    \/ MainWake
    \/ \E fails \in BOOLEAN : MainLaunch(fails)
    \/ SignalHandler
    \/ StopCheck
    \/ StopKill
    \/ \E ended \in BOOLEAN : StopWait(ended)
    \/ StopReturn
    \/ ThreadCheckModules
    \/ \E ok \in BOOLEAN : ThreadInstall(ok)
    \/ \E ok \in BOOLEAN : ThreadSpawn(ok)
    \/ ThreadAssign
    \/ \E ready \in BOOLEAN : ThreadPoll(ready)

SpecServer == InitServer /\ [][NextServer]_vars

(***************************************************************************)
(* Properties                                                              *)
(***************************************************************************)
Range(f) == {f[i] : i \in DOMAIN f}

NoDuplicates(f) == \A i, j \in DOMAIN f : f[i] = f[j] => i = j

\* What a text is made of, line by line, whatever the parser does with it.
OptionLine(line) == \E x \in ABCD : startswith(strip(line), <<x, ")">>)

AnswerLine(line) ==
    /\ ~OptionLine(line)
    /\ \/ startswith(upper(strip(line)), ANSWER_PREFIX)
       \/ startswith(upper(strip(line)), CORRECT_PREFIX)

QuestionLine(line) == strip(line) # << >> /\ ~OptionLine(line) /\ ~AnswerLine(line)

OptionLines(lines) == {i \in 1..Len(lines) : OptionLine(lines[i])}

\* Some question line stands before the first option line.
HasQuestion(lines) ==
    \E i \in 1..Len(lines) :
        QuestionLine(lines[i]) /\ \A j \in 1..(i - 1) : ~OptionLine(lines[j])

HasAnswer(lines) == \E i \in 1..Len(lines) : AnswerLine(lines[i])

CandidateText(lines) ==
    HasQuestion(lines) /\ Cardinality(OptionLines(lines)) = 4 /\ HasAnswer(lines)

\* The answer of the stage-1 endpoint gives no text, or a text that is no
\* candidate.
Stage1Fails(response) ==
    \/ response.kind = "exception"
    \/ ~response.ok
    \/ IsNone(call_lit_api(response).ret)
    \/ call_lit_api(response).ret[1].t # "str"
    \/ ~CandidateText(split(call_lit_api(response).ret[1].s, NL))

\* The answer of the stage-2 endpoint is an exception, has no content, or a
\* content from which the parser returns no object.
Stage2Fails(reply) ==
    \/ reply.kind = "exception"
    \/ IsNone(reply.content)
    \/ IsNone(parse_question_response(reply.content[1]).ret)

\* Question q carries the content of candidate d: its question, its answer,
\* and its four options, each under its letter.
SameContent(q, d) ==
    /\ q.question_text = d[K_question]
    /\ q.correct_answer = d[K_correct_answer]
    /\ Len(q.options) = 4
    /\ Len(d[K_options].l) = 4
    /\ \A i \in 1..4 : q.options[i] = <<Uppercase[i], ")", " ">> \o d[K_options].l[i].s

\* C1: when stage 1 gave a valid candidate and stage 2 fails in any way (an
\* exception of the request, a reply without content, an unparsable or
\* rejected reply), the run never sets stage Error, goes on with the stage-1
\* candidate and ends in Complete with a Question that has the candidate's
\* question text, four options and correct answer.
C1_FallbackOnStage2Failure ==
    \A s \in Sessions :
        (/\ run[s].raw_question # None
         /\ run[s].reply # 0
         /\ Stage2Fails(Stage2Replies[run[s].reply]))
        => /\ "error" \notin Range(run[s].seen)
           /\ pc[s] \in {"validating", "returned", "idle"}
           /\ pc[s] = "validating" => run[s].refined_question = run[s].raw_question
           /\ pc[s] \in {"returned", "idle"} =>
                  /\ progress_stage[s] = "complete"
                  /\ run[s].question # None
                  /\ SameContent(run[s].question[1], run[s].raw_question[1])

\* A run has returned after a stage-2 reply that did not parse.
C1_Witness ==
    \E s \in Sessions :
        /\ pc[s] = "returned"
        /\ run[s].raw_question # None
        /\ run[s].reply # 0
        /\ Stage2Replies[run[s].reply].kind = "completion"
        /\ Stage2Fails(Stage2Replies[run[s].reply])
        /\ run[s].question # None

\* C2: when stage 1 fails (no text, or a text that is no valid candidate,
\* such as one with three option lines), the run ends in stage Error without
\* a Question, the stage-2 client is not invoked and the stage is never
\* Refining.
C2_Stage1FailureIsFatal ==
    \A s \in Sessions :
        (run[s].response # 0 /\ Stage1Fails(Stage1Responses[run[s].response]))
        => /\ pc[s] \in {"returned", "idle"}
           /\ progress_stage[s] = "error"
           /\ run[s].question = None
           /\ run[s].raw_question = None
           /\ run[s].stage2_calls = 0
           /\ run[s].reply = 0
           /\ run[s].seen = <<"generating", "error">>

\* A run has returned after a stage-1 text with three option lines.
C2_Witness ==
    \E s \in Sessions :
        /\ pc[s] = "returned"
        /\ run[s].response # 0
        /\ call_lit_api(Stage1Responses[run[s].response]).ret = Some(StrV(RawTextThreeOptions))
        /\ progress_stage[s] = "error"

\* A text of six lines: a question line, the options A) to D) in order, each
\* with a text, and a line ANSWER: X or CORRECT: X.
WellFormedLines(lines) ==
    /\ Len(lines) = 6
    /\ QuestionLine(lines[1]) /\ strip(lines[1]) = lines[1]
    /\ \A i \in 1..4 :
           /\ Len(lines[i + 1]) > 3
           /\ SubSeq(lines[i + 1], 1, 3) = <<Uppercase[i], ")", " ">>
           /\ lines[i + 1][4] \notin Whitespace
           /\ lines[i + 1][Len(lines[i + 1])] \notin Whitespace
    /\ \E x \in ABCD :
           lines[6] \in {ANSWER_PREFIX \o <<" ", x>>, CORRECT_PREFIX \o <<" ", x>>}

\* C3: for a text made of a question line, four option lines A) to D) and a
\* last line 'ANSWER: X' or 'CORRECT: X', parse_llama_response returns the
\* candidate with the question line, the four option texts without their
\* labels, and correct answer X (B for the velocity text).
C3_ParsesStatedAnswer ==
    (probe.fn = "llama" /\ WellFormedLines(probe.lines))
    => /\ probe.out # None
       /\ probe.out[1][K_question] = StrV(probe.lines[1])
       /\ probe.out[1][K_options] =
              ListV([i \in 1..4 |->
                        StrE(SubSeq(probe.lines[i + 1], 4, Len(probe.lines[i + 1])))])
       /\ probe.out[1][K_correct_answer] = StrV(<<probe.lines[6][Len(probe.lines[6])]>>)

\* C4: parse_llama_response returns a candidate exactly for the texts with a
\* question line before the options, exactly four option lines and an answer
\* line, None for every other text, and every candidate it returns has four
\* options and a correct answer among A to D.
C4_AllOrNothing ==
    probe.fn = "llama"
    => /\ probe.out # None <=> CandidateText(probe.lines)
       /\ probe.out # None =>
              /\ DOMAIN probe.out[1] =
                     {K_question, K_options, K_correct_answer, K_confidence}
              /\ probe.out[1][K_question].s # << >>
              /\ Len(probe.out[1][K_options].l) = 4
              /\ probe.out[1][K_correct_answer].s \in AnswerLetters

\* A candidate is returned for a text of the longest size.
C4_Witness ==
    /\ probe.fn = "llama"
    /\ Len(probe.lines) = MaxLines
    /\ probe.out # None

\* C5: a question object with a question, four options, a correct answer
\* among A to D and an explanation, encoded as JSON text, is parsed by
\* parse_question_response into an equal object.
C5_RoundTrip ==
    (probe.fn = "json" /\ probe.case = "roundtrip")
    => probe.out = returns(Some(dict_of(probe.items)))

\* An object whose question and options hold braces and a quote made the
\* round trip.
C5_Witness ==
    /\ probe.fn = "json"
    /\ probe.case = "roundtrip"
    /\ probe.items[1][2] = StrV(<<"{", QUOTE>>)
    /\ probe.items[2][2].l[4] = StrE(<<"}">>)
    /\ probe.out.ret # None

\* A decoded object that passes the three checks.
ValidObject(d) ==
    /\ {K_question, K_options, K_correct_answer} \subseteq DOMAIN d
    /\ d[K_options].t = "list"
    /\ Len(d[K_options].l) = 4
    /\ d[K_correct_answer].t = "str"
    /\ d[K_correct_answer].s \in AnswerLetters

\* C6: parse_question_response returns None, and raises nothing, for a text
\* without a decodable JSON object, and for an object that lacks one of
\* question, options, correct_answer, whose options are not a list of four,
\* or whose correct answer is not one of A, B, C, D.
C6_RejectsWithoutRaising ==
    (/\ probe.fn = "json"
     /\ \/ probe.case \in {"truncated", "deep"}
        \/ probe.case \in {"object", "typed"} /\ ~ValidObject(dict_of(probe.items)))
    => probe.out = returns(None)

StageOrder == <<"idle", "generating", "refining", "validating", "complete">>

StageRank(stage) == CHOOSE i \in 1..Len(StageOrder) : StageOrder[i] = stage

\* C7: within a run the stage only moves forward through Idle, Generating,
\* Refining, Validating, Complete, or to Error from a stage that is not
\* terminal; Complete and Error are left by no step of the run, and the run
\* sets no stage twice.
C7_StageMovesForward ==
    /\ [](\A s \in Sessions : NoDuplicates(run[s].seen))
    /\ [][\A s \in Sessions :
            \/ pc[s] = "idle" /\ pc'[s] = "reset"
            \/ progress_stage'[s] = progress_stage[s]
            \/ /\ progress_stage[s] \notin {"complete", "error"}
               /\ \/ progress_stage'[s] = "error"
                  \/ /\ progress_stage'[s] # "error"
                     /\ StageRank(progress_stage'[s]) > StageRank(progress_stage[s])]_vars

\* A run went through every stage up to Complete.
C7_Witness ==
    \E s \in Sessions :
        /\ run[s].seen = <<"generating", "refining", "validating", "complete">>
        /\ progress_stage[s] = "complete"

\* C8: each run owns its stage: no step of a run changes the stage another
\* run left or is in, be it a run of another session or the next run of the
\* same session.
C8_RunsOwnTheirStage ==
    [][\A s \in Sessions :
          /\ (\E t \in Sessions \ {s} : pc'[t] # pc[t])
                 => progress_stage'[s] = progress_stage[s]
          /\ (run[s].seen # << >> /\ pc[s] = "idle" /\ pc'[s] = "reset")
                 => progress_stage'[s] = progress_stage[s]]_vars

\* C9: a generation request made without a stage-2 key is not refused: no
\* notice about the missing key is shown in place of the run.
C9_NotBlockedWithoutKey ==
    \A s \in Sessions : "no_api_key" \notin notices[s]

\* A question as the pipeline hands it on: four options and a correct answer
\* that is the letter of one of them.
ValidQuestion(q) ==
    /\ Len(q.options) = 4
    /\ q.correct_answer.t = "str"
    /\ q.correct_answer.s \in AnswerLetters
    /\ \E i \in 1..Len(q.options) : q.correct_answer.s = <<Uppercase[i]>>

\* C10: every Question a run returns, refined or not, and so every Question
\* shown or kept in the history, has exactly four options and a correct
\* answer among A to D that is the letter of one of them.
C10_ReturnedQuestionsValid ==
    \A s \in Sessions :
        /\ run[s].question # None => ValidQuestion(run[s].question[1])
        /\ current_question[s] # None => ValidQuestion(current_question[s][1])
        /\ \A i \in 1..Len(question_history[s]) : ValidQuestion(question_history[s][i])

\* A refined Question and a Question of the fallback path are both in one
\* session's history.
C10_Witness ==
    \E s \in Sessions :
        /\ Len(question_history[s]) = 2
        /\ question_history[s][1].question_text = StrV(<<"Q">>)
        /\ question_history[s][2].question_text = StrV(<<"Q", "2">>)

\* The questions a session holds: the one its run returned, the one shown,
\* those of the history.
QuestionsOf(s) ==
    {run[s].question[i] : i \in 1..Len(run[s].question)}
    \cup {current_question[s][i] : i \in 1..Len(current_question[s])}
    \cup Range(question_history[s])

\* C11: both stages accept a candidate under the same rules (a question
\* text that is not empty, four options none of which is empty, an answer
\* among A to D), so no final Question has an empty question text or an
\* empty option, whichever stage it came from.
C11_NoEmptyTextOrOption ==
    \A s \in Sessions :
        \A q \in QuestionsOf(s) :
            /\ q.question_text.s # << >>
            /\ \A i \in 1..Len(q.options) : SubSeq(q.options[i], 4, Len(q.options[i])) # << >>

\* A call that succeeded with a JSON object as body.
ObjectBody(c) ==
    /\ c.response.kind = "response"
    /\ c.response.ok
    /\ json_loads(c.response.text).exc = ""
    /\ json_loads(c.response.text).kind = "dict"

\* What the value under 'response' yields: the text that follows an embedded
\* object, the output of an embedded object, the text itself, and the whole
\* body when the value is no text.
FromResponse(v, body) ==
    IF v = StrV(<<"{", "}", " ", "t">>) THEN StrV(<<"t">>)
    ELSE IF v = StrV(BraceInText) THEN StrV(<<QUOTE, "}", " ", "t">>)
    ELSE IF v = StrV(json_dumps(<< <<K_output, StrV(<<"i">>)>> >>)) THEN StrV(<<"i">>)
    ELSE IF v.t = "str" THEN v
    ELSE StrV(body)

\* The text of a body by the order response, generated_text, output, body.
ByResponseFirst(d, body) ==
    IF K_response \in DOMAIN d THEN FromResponse(d[K_response], body)
    ELSE IF K_generated_text \in DOMAIN d THEN d[K_generated_text]
    ELSE IF K_output \in DOMAIN d THEN d[K_output]
    ELSE StrV(body)

\* The text of a body by the order generated_text, output, response, body.
ByGeneratedTextFirst(d, body) ==
    IF K_generated_text \in DOMAIN d THEN d[K_generated_text]
    ELSE IF K_output \in DOMAIN d THEN d[K_output]
    ELSE IF K_response \in DOMAIN d THEN FromResponse(d[K_response], body)
    ELSE StrV(body)

\* C12 as stated: the client tries generated_text, then output, then
\* response, then the body as it is, so of several fields in one body the
\* earliest in that order gives the returned text.
C12_GeneratedTextFirst ==
    probe.fn = "lit" =>
        \A i \in 1..Len(probe.calls) :
            ObjectBody(probe.calls[i]) =>
                probe.calls[i].out.ret =
                    Some(ByGeneratedTextFirst(json_loads(probe.calls[i].response.text).d,
                                              probe.calls[i].response.text))

\* C12 as amended: the client tries response, then generated_text, then
\* output, then the body as it is, so of several fields in one body the
\* earliest in that order gives the returned text; a value under response
\* that is no text gives the body as it is.
C12_ResponseFirst ==
    probe.fn = "lit" =>
        \A i \in 1..Len(probe.calls) :
            ObjectBody(probe.calls[i]) =>
                probe.calls[i].out.ret =
                    Some(ByResponseFirst(json_loads(probe.calls[i].response.text).d,
                                         probe.calls[i].response.text))

\* A body with all three fields gave the text under response.
C12_Witness ==
    /\ probe.fn = "lit"
    /\ \E i \in 1..Len(probe.calls) :
           /\ ObjectBody(probe.calls[i])
           /\ DOMAIN json_loads(probe.calls[i].response.text).d =
                  {K_response, K_generated_text, K_output}
           /\ probe.calls[i].out.ret = Some(StrV(<<"r">>))

\* The class of a failed call: Unreachable for a transport error or timeout,
\* RemoteError for a status that is no success.
FailureClass(response) ==
    IF response.kind = "exception" THEN "Unreachable"
    ELSE IF ~response.ok THEN "RemoteError"
    ELSE "none"

\* C13: the stage-1 client raises nothing and returns a failure that tells
\* its class: what it returns for an unreachable endpoint differs from what
\* it returns for an error status.
C13_FailureClassesDistinct ==
    (/\ probe.fn = "lit"
     /\ Len(probe.calls) = 2
     /\ FailureClass(probe.calls[1].response) = "Unreachable"
     /\ FailureClass(probe.calls[2].response) = "RemoteError")
    => probe.calls[1].out.ret # probe.calls[2].out.ret

\* C14: a run makes no retry and keeps the order of the stages: it calls the
\* stage-1 client exactly once, the stage-2 client at most once, and the
\* stage-2 client only after stage 1 gave a text that is a valid candidate.
C14_NoRetries ==
    \A s \in Sessions :
        /\ run[s].stage1_calls <= 1
        /\ run[s].stage2_calls <= 1
        /\ pc[s] \in {"reset", "generating"} =>
               run[s].stage1_calls = 0 /\ run[s].stage2_calls = 0
        /\ pc[s] \in {"refining", "validating", "returned"} => run[s].stage1_calls = 1
        /\ pc[s] = "refining" => run[s].stage2_calls = 0
        /\ run[s].stage2_calls = 1 =>
               /\ run[s].stage1_calls = 1
               /\ run[s].raw_question # None
               /\ ~Stage1Fails(Stage1Responses[run[s].response])

\* A run has returned after one call of each client.
C14_Witness ==
    \E s \in Sessions :
        /\ pc[s] = "returned"
        /\ run[s].stage1_calls = 1
        /\ run[s].stage2_calls = 1

\* C15: no exception escapes the orchestrator: whatever the two services
\* answer, a run returns a Question with stage Complete or no Question with
\* stage Error; and, the remote calls returning, every run comes to return,
\* a run in Validating with a Question and stage Complete.
C15_EveryRunReturns ==
    /\ [](\A s \in Sessions :
            pc[s] = "returned" =>
                \/ run[s].question # None /\ progress_stage[s] = "complete"
                \/ run[s].question = None /\ progress_stage[s] = "error")
    /\ \A s \in Sessions :
           (pc[s] \in {"reset", "generating", "refining", "validating"})
               ~> (pc[s] = "returned")
    /\ \A s \in Sessions :
           (pc[s] = "validating")
               ~> (pc[s] = "returned" /\ run[s].question # None
                   /\ progress_stage[s] = "complete")

\* A run has returned a Question after the parser raised on the stage-2
\* reply.
C15_Witness ==
    \E s \in Sessions :
        /\ pc[s] = "returned"
        /\ run[s].reply # 0
        /\ Stage2Replies[run[s].reply].kind = "completion"
        /\ Stage2Replies[run[s].reply].content # None
        /\ parse_question_response(Stage2Replies[run[s].reply].content[1]).exc # ""
        /\ run[s].question # None

\* Why a stage-1 answer gives no candidate: the endpoint is unreachable, the
\* status is no success, the body gives no text, or the text is rejected.
Stage1Cause(response) ==
    IF FailureClass(response) # "none" THEN FailureClass(response)
    ELSE IF \/ IsNone(call_lit_api(response).ret)
            \/ call_lit_api(response).ret[1].t # "str"
    THEN "UnparsableResponse"
    ELSE IF ~CandidateText(split(call_lit_api(response).ret[1].s, NL))
    THEN "ValidationRejected"
    ELSE "none"

\* The run of session s has ended in Error at stage 1.
EndedInError(s) ==
    /\ pc[s] \in {"returned", "idle"}
    /\ run[s].response # 0
    /\ progress_stage[s] = "error"

\* C16: the reason recorded for a run that ends in Error at stage 1 keeps
\* the cause: two runs that failed for different causes (endpoint
\* unreachable, error status, unparsable body, rejected candidate) have
\* different recorded reasons.
C16_ReasonKeepsCause ==
    \A s, t \in Sessions :
        (/\ EndedInError(s)
         /\ EndedInError(t)
         /\ Stage1Cause(Stage1Responses[run[s].response])
                # Stage1Cause(Stage1Responses[run[t].response]))
        => progress_message[s] # progress_message[t]

\* C17: a stage-2 failure is reported as an advisory and is never the run's
\* failure: a run that returns the stage-1 candidate because stage 2 failed
\* has emitted a notice about the refinement, and its stage is not Error.
C17_FallbackIsAnnounced ==
    \A s \in Sessions :
        (/\ pc[s] = "returned"
         /\ run[s].raw_question # None
         /\ run[s].reply # 0
         /\ Stage2Fails(Stage2Replies[run[s].reply]))
        => /\ progress_stage[s] # "error"
           /\ notices[s] \cap {"refinement_warning", "refinement_error"} # {}

\* The text of the i-th option of the candidate the run's Question is built
\* from.
CandidateOption(s, i) == format_scalar(run[s].refined_question[1][K_options].l[i])

\* C18 as stated: a Question stores its options as plain text, without the
\* letter label, which is added only when the options are presented.
C18_StoredPlain ==
    \A s \in Sessions :
        run[s].question # None =>
            \A i \in 1..Len(run[s].question[1].options) :
                run[s].question[1].options[i] = CandidateOption(s, i)

\* C18 as amended: a Question stores each option with its letter label,
\* "A) " to "D) ", before the candidate's text; the presentation takes the
\* label off the stored option and shows the text.
C18_StoredLabelled ==
    \A s \in Sessions :
        run[s].question # None =>
            \A i \in 1..Len(run[s].question[1].options) :
                /\ run[s].question[1].options[i]
                       = <<Uppercase[i], ")", " ">> \o CandidateOption(s, i)
                /\ display_option(run[s].question[1].options[i]) = CandidateOption(s, i)

\* A Question was built from a refined candidate whose second option is a
\* number.
C18_Witness ==
    \E s \in Sessions :
        /\ run[s].question # None
        /\ run[s].question[1].options[2] = <<"B", ")", " ", "7">>

BraceFree(text) == \A i \in 1..Len(text) : text[i] \notin {"{", "}"}

\* C19: parse_question_response ignores prose around the JSON object: for a
\* text prefix + J + suffix, J an encoded valid question object and prefix
\* and suffix without braces, the result is that of parsing J alone, the
\* object J encodes.
C19_IgnoresProse ==
    (probe.fn = "json" /\ probe.case = "prose") =>
        \A prefix \in Prefixes, suffix \in Suffixes :
            (/\ BraceFree(prefix)
             /\ BraceFree(suffix)
             /\ probe.text = prefix \o json_dumps(probe.items) \o suffix)
            => /\ probe.out = parse_question_response(json_dumps(probe.items))
               /\ probe.out = returns(Some(dict_of(probe.items)))

\* An object between a leading and a trailing piece of prose was parsed.
C19_Witness ==
    /\ probe.fn = "json"
    /\ probe.case = "prose"
    /\ probe.text = <<"H", "i", ":", " ">> \o json_dumps(probe.items) \o <<" ", "o", "k">>
    /\ probe.out.ret # None

\* The step adds one line to the text.
OneMoreLine ==
    /\ probe.fn = "llama"
    /\ probe'.fn = "llama"
    /\ Len(probe'.lines) = Len(probe.lines) + 1
    /\ SubSeq(probe'.lines, 1, Len(probe.lines)) = probe.lines

\* What one more line may do to what was gathered before it (old), given
\* whether an option line came before it.
LineEffect(old, new, line, after_options) ==
    /\ (QuestionLine(line) /\ after_options) => new = old
    /\ (QuestionLine(line) /\ ~after_options)
       => /\ new.question_text = IF old.question_text = << >> THEN strip(line)
                                 ELSE old.question_text \o <<" ">> \o strip(line)
          /\ new.options = old.options
          /\ new.answer = old.answer
    /\ AnswerLine(line)
       => /\ new.question_text = old.question_text
          /\ new.options = old.options

\* C20: a line that is neither blank, nor an option line, nor an answer line
\* is joined with a space to the question text while no option line has
\* been seen; after the first option line it changes neither the question
\* text, nor the options, nor the answer; an answer line changes neither
\* the question text nor the options.
C20_QuestionSection ==
    [][OneMoreLine =>
          LineEffect(probe.gathered, probe'.gathered,
                     probe'.lines[Len(probe'.lines)], OptionLines(probe.lines) # {})]_vars

\* A candidate was returned for a text with a question line after an option
\* line; its question text is the one line before the options.
C20_Witness ==
    /\ probe.fn = "llama"
    /\ probe.out # None
    /\ \E i, j \in 1..Len(probe.lines) :
           i < j /\ OptionLine(probe.lines[i]) /\ QuestionLine(probe.lines[j])
    /\ probe.out[1][K_question].s = <<"Q", "?">>

\* The position of the closing brace of the JSON object a text begins with;
\* 0 when the text does not begin with a JSON object.
EmbeddedEnd(s) ==
    LET closes(k) == /\ s[k] = "}"
                     /\ json_loads(SubSeq(s, 1, k)).exc = ""
                     /\ json_loads(SubSeq(s, 1, k)).kind = "dict"
    IN  IF \E k \in 1..Len(s) : closes(k)
        THEN CHOOSE k \in 1..Len(s) : closes(k)
        ELSE 0

\* Everything after the closing brace of the embedded object, trimmed.
TrailingText(s) == strip(SubSeq(s, EmbeddedEnd(s) + 1, Len(s)))

\* The text is an embedded JSON object followed by trailing generated text.
HasTrailingText(s) == EmbeddedEnd(s) # 0 /\ TrailingText(s) # << >>

\* The calls whose body is a JSON object with a text under 'response'.
TextUnderResponse(c) ==
    /\ ObjectBody(c)
    /\ K_response \in DOMAIN json_loads(c.response.text).d
    /\ json_loads(c.response.text).d[K_response].t = "str"

ResponseText(c) == json_loads(c.response.text).d[K_response]

\* C21: for a text under 'response' that is an embedded JSON object followed
\* by trailing generated text the client returns exactly the trailing text
\* (everything after the closing brace of the embedded object, trimmed); for
\* a text without such trailing text it returns the text itself.
C21_TrailingTextOnly ==
    probe.fn = "lit" =>
        \A i \in 1..Len(probe.calls) :
            TextUnderResponse(probe.calls[i]) =>
                probe.calls[i].out.ret =
                    Some(IF HasTrailingText(ResponseText(probe.calls[i]).s)
                         THEN StrV(TrailingText(ResponseText(probe.calls[i]).s))
                         ELSE ResponseText(probe.calls[i]))

\* The first half of C21 alone: for an embedded object followed by text the
\* returned text is the trailing text.
C21_TrailingOfObject ==
    probe.fn = "lit" =>
        \A i \in 1..Len(probe.calls) :
            (/\ TextUnderResponse(probe.calls[i])
             /\ HasTrailingText(ResponseText(probe.calls[i]).s))
            => probe.calls[i].out.ret =
                   Some(StrV(TrailingText(ResponseText(probe.calls[i]).s)))

\* The percentage each stage of a run sets.
StageValue(stage) ==
    CASE stage = "generating" -> 25
      [] stage = "refining" -> 60
      [] stage = "validating" -> 85
      [] stage = "complete" -> 100
      [] OTHER -> 0

\* A step of a session that sets the stage to Error.
TurnsToError(s) == progress_stage[s] # "error" /\ progress_stage'[s] = "error"

\* C22: the progress percentage is 100 exactly when the stage is Complete;
\* within a run it never decreases (0 at the reset, then 25, 60, 85, 100 with
\* the stages Generating, Refining, Validating, Complete); and a step to Error
\* leaves the percentage at the value of the stage in which the run failed.
C22_PercentageFollowsStage ==
    /\ [](\A s \in Sessions :
              /\ progress_value[s] = 100 <=> progress_stage[s] = "complete"
              /\ progress_stage[s] \in {"refining", "validating", "complete"}
                 => progress_value[s] = StageValue(progress_stage[s])
              /\ progress_stage[s] = "generating" => progress_value[s] \in {0, 25})
    /\ [][\A s \in Sessions :
              /\ pc[s] # "idle" => progress_value'[s] >= progress_value[s]
              /\ TurnsToError(s) =>
                     /\ progress_value'[s] = progress_value[s]
                     /\ progress_value[s] = StageValue(progress_stage[s])]_vars

\* After a completed run, a second run failed in the stage Generating and the
\* percentage stands at 25.
C22_Witness ==
    /\ Len(question_history["s1"]) = 1
    /\ progress_stage["s1"] = "error"
    /\ progress_value["s1"] = 25
    /\ pc["s1"] = "returned"

\* The step of main that receives a question from the run of session s.
ReceivesQuestion(s) == pc[s] = "returned" /\ run[s].question # None

\* C23: generation_count equals the length of question_history in every
\* state; the step that receives the question of a successful run inserts it
\* at the front of the history and adds 1 to the count, and every other step
\* (a failed run, a question loaded from the history) leaves both unchanged.
C23_CountIsHistoryLength ==
    /\ [](\A s \in Sessions : generation_count[s] = Len(question_history[s]))
    /\ [][\A s \in Sessions :
              IF ReceivesQuestion(s)
              THEN /\ question_history'[s] = <<run[s].question[1]>> \o question_history[s]
                   /\ generation_count'[s] = generation_count[s] + 1
              ELSE /\ question_history'[s] = question_history[s]
                   /\ generation_count'[s] = generation_count[s]]_vars

\* Two runs succeeded, the later question stands first, and the older
\* question was loaded from the history.
C23_Witness ==
    /\ Len(question_history["s1"]) = 2
    /\ generation_count["s1"] = 2
    /\ question_history["s1"][1].id = <<"s1", 2>>
    /\ question_history["s1"][2].id = <<"s1", 1>>
    /\ current_question["s1"] = Some(question_history["s1"][2])

\* C24: current_question is absent or an element of question_history in
\* every state, whatever the generate, regenerate and load-from-history
\* actions before it; and a question that was cleared stays absent through
\* the run that follows, unless the run returns a question.
C24_CurrentIsInHistory ==
    /\ [](\A s \in Sessions :
              \/ current_question[s] = None
              \/ \E i \in 1..Len(question_history[s]) :
                     current_question[s] = Some(question_history[s][i]))
    /\ [][\A s \in Sessions :
              (pc[s] # "idle" /\ ~ReceivesQuestion(s))
              => current_question'[s] = current_question[s]]_vars

\* A question was generated, Regenerate cleared it and the run that followed
\* failed: no question is current, the history keeps the first one.
C24_Witness ==
    /\ Len(question_history["s1"]) = 1
    /\ current_question["s1"] = None
    /\ progress_stage["s1"] = "error"
    /\ pc["s1"] = "idle"

\* C25: the letter label round-trips: for every option text t and position
\* i of the four, the stored form is the letter of i, then ") ", then t; the
\* display-time stripping maps it back to exactly t, and the label shown for
\* position i starts with the letter of i, also when t is empty or itself
\* contains ") ".
C25_LabelRoundTrip ==
    (probe.fn = "label" /\ probe.case = "roundtrip")
    => /\ probe.stored = <<Uppercase[probe.i], ")", " ">> \o probe.text
       /\ probe.option_label = probe.text
       /\ probe.shown[1] = Uppercase[probe.i]
       /\ probe.shown = probe.stored

\* The text of the fourth option contains ") " and came back whole.
C25_Witness ==
    /\ probe.fn = "label" /\ probe.case = "roundtrip"
    /\ probe.i = 4
    /\ probe.text = <<" ", ")", " ">>
    /\ probe.stored = <<"D", ")", " ", " ", ")", " ">>
    /\ probe.option_label = probe.text

\* The backend answered 200 with a body that has success and a question.
AnsweredWithQuestion(backend) ==
    /\ backend.kind = "response"
    /\ backend.status_code = 200
    /\ backend.data.t = "dict"
    /\ is_true(dict_get(backend.data.d, "success", NullV))
    /\ is_true(dict_get(backend.data.d, "question", NullV))

\* C26: generate_question of the Gradio interface raises nothing and returns
\* a pair (text, status); for a topic outside the catalog, and then for a
\* difficulty outside easy, standard and hard, it returns the empty text with
\* the error status of that input and sends no request (the topic is checked
\* first); with valid inputs it sends one request; the text is non-empty only
\* when the backend answered 200 with success and a question, and empty on a
\* timeout, a connection error, a status other than 200 and an unsuccessful
\* body.
C26_GradioNeverRaises ==
    (probe.fn = "gradio" /\ probe.case = "called")
    => /\ probe.out.raised = ""
       /\ DOMAIN probe.out = {"raised", "text", "status", "sent"}
       /\ probe.out.status.kind # ""
       /\ probe.topic \notin IB_PHYSICS_TOPICS
          => /\ probe.out.text = << >>
             /\ probe.out.status.kind = "invalid_topic"
             /\ probe.out.sent = 0
       /\ (probe.topic \in IB_PHYSICS_TOPICS /\ probe.difficulty \notin DIFFICULTY_LEVELS)
          => /\ probe.out.text = << >>
             /\ probe.out.status.kind = "invalid_difficulty"
             /\ probe.out.sent = 0
       /\ (probe.topic \in IB_PHYSICS_TOPICS /\ probe.difficulty \in DIFFICULTY_LEVELS)
          => probe.out.sent = 1
       /\ probe.out.text # << >>
          => /\ probe.out.sent = 1
             /\ AnsweredWithQuestion(probe.backend)
             /\ probe.out.status.kind = "generated"
       /\ ~AnsweredWithQuestion(probe.backend)
          => /\ probe.out.text = << >>
             /\ probe.out.status.kind # "generated"

\* A body with success and a question that is no object: the AttributeError
\* is caught and the text is empty.
C26_Witness ==
    /\ probe.fn = "gradio" /\ probe.case = "called"
    /\ probe.topic \in IB_PHYSICS_TOPICS /\ probe.difficulty \in DIFFICULTY_LEVELS
    /\ AnsweredWithQuestion(probe.backend)
    /\ probe.backend.data.d["question"].t = "str"
    /\ probe.out.raised = ""
    /\ probe.out.text = << >>
    /\ probe.out.status.kind = "unexpected_error"

\* C27: under every interleaving of the thread of start_nextjs_server with
\* the shutdown (the signal handler, the finally clause of main), once the
\* shutdown's calls of stop_nextjs_server have returned and main has ended,
\* no child started by start_nextjs_server is running; a stop that ran
\* before the child was spawned included.
C27_NoChildSurvives ==
    (probe.fn = "server" /\ probe.main = "exited" /\ probe.stops >= 1)
    => probe.child # "running"

\* The same for the shutdowns in which no wait of stop_nextjs_server timed
\* out: a child that survives was never signalled.
C27_NoChildUnsignalled ==
    (probe.fn = "server" /\ probe.main = "exited" /\ probe.NEXTJS_PROCESS = None)
    => probe.child # "running"

\* The candidate the stage-2 reply of the run of session s parsed to.
Stage2Candidate(s) == parse_question_response(Stage2Replies[run[s].reply].content[1]).ret[1]

\* The run of session s took the fallback path: the stage-2 request was not
\* made, or it failed.
FallbackPath(s) == run[s].reply = 0 \/ Stage2Fails(Stage2Replies[run[s].reply])

\* C28: a Question returned on the fallback path (stage 2 failed or was
\* skipped) has an empty explanation; a Question returned on the refined path
\* carries the explanation of the stage-2 candidate, the empty text when the
\* reply had none; and its topic is the topic passed to the run.
C28_ExplanationOfThePath ==
    \A s \in Sessions :
        run[s].question # None
        => /\ run[s].question[1].topic = run[s].topic
           /\ run[s].topic \in Topics
           /\ FallbackPath(s) => run[s].question[1].explanation = StrV(<< >>)
           /\ ~FallbackPath(s) =>
                  run[s].question[1].explanation =
                      (IF K_explanation \in DOMAIN Stage2Candidate(s)
                       THEN Stage2Candidate(s)[K_explanation]
                       ELSE StrV(<< >>))

\* The second run of a session took the refined path and its Question
\* carries the explanation of the reply; the first took the fallback path.
C28_Witness ==
    /\ pc["s1"] = "returned"
    /\ run["s1"].question # None
    /\ ~FallbackPath("s1")
    /\ run["s1"].question[1].explanation = StrV(<<"E">>)
    /\ Len(question_history["s1"]) = 1
    /\ question_history["s1"][1].explanation = StrV(<< >>)

====
